---------------------------- MODULE Spec2Model ----------------------------
(* Verification model of pyquil's reference simulators                     *)
(* (src/pyquil/reference_simulator.py): ReferenceWavefunctionSimulator and *)
(* ReferenceDensitySimulator, and of the name parsing, the local_qvm       *)
(* context manager and the flipped program of                              *)
(* src/pyquil/api/_quantum_computer.py.                                    *)
(*                                                                         *)
(* Numbers.  numpy's complex128 values are modelled exactly, as elements   *)
(* of the field Q(sqrt 2, i): the tuple <<a, b, c, d, e>> stands for       *)
(*      (a + b*sqrt(2) + c*i + d*i*sqrt(2)) / e,    e > 0,                  *)
(* kept in lowest terms so that equal numbers are equal values.  The tuple *)
(* with e = 0 is the non-finite value (numpy's inf / nan).                 *)
EXTENDS Integers, Sequences, FiniteSets, TLC

---------------------------------------------------------------------------
(* Bounds of the model.                                                     *)

\* largest n_samples handed to sample_bitstrings
MaxSamples == 1

\* the most gate matrices applied in a row where non-unitary ones are allowed
MaxCalls == 3

\* the longest quantum-computer name, in tokens
MaxNameLen == 5

\* the longest program handed to run_symmetrized_readout, in instructions
MaxProgLen == 3

---------------------------------------------------------------------------
(* Exact complex arithmetic.                                                *)

Abs(x) == IF x < 0 THEN -x ELSE x

Sgn(x) == IF x < 0 THEN -1 ELSE IF x > 0 THEN 1 ELSE 0

RECURSIVE Gcd(_, _)
Gcd(x, y) == IF y = 0 THEN x ELSE Gcd(y, x % y)

CZero == <<0, 0, 0, 0, 1>>

COne == <<1, 0, 0, 0, 1>>

CNaN == <<0, 0, 0, 0, 0>>

IsFinite(x) == x[5] # 0

\* lowest terms, positive denominator
Norm(a, b, c, d, e) ==
    IF e = 0 THEN CNaN
    ELSE LET g == Gcd(Gcd(Gcd(Gcd(Abs(e), Abs(a)), Abs(b)), Abs(c)), Abs(d))
             s == IF e < 0 THEN -g ELSE g
         IN  <<a \div s, b \div s, c \div s, d \div s, e \div s>>

\* the rational n/d
Q(n, d) == Norm(n, 0, 0, 0, d)

CAdd(x, y) ==
    IF x[5] = 0 \/ y[5] = 0 THEN CNaN
    ELSE IF x = CZero THEN y
    ELSE IF y = CZero THEN x
    ELSE Norm(x[1] * y[5] + y[1] * x[5], x[2] * y[5] + y[2] * x[5],
              x[3] * y[5] + y[3] * x[5], x[4] * y[5] + y[4] * x[5],
              x[5] * y[5])

CNeg(x) == <<-x[1], -x[2], -x[3], -x[4], x[5]>>

CSub(x, y) == CAdd(x, CNeg(y))

CMul(x, y) ==
    IF x[5] = 0 \/ y[5] = 0 THEN CNaN
    ELSE IF x = CZero \/ y = CZero THEN CZero
    ELSE IF x = COne THEN y
    ELSE IF y = COne THEN x
    ELSE Norm(x[1] * y[1] + 2 * x[2] * y[2] - x[3] * y[3] - 2 * x[4] * y[4],
              x[1] * y[2] + x[2] * y[1] - x[3] * y[4] - x[4] * y[3],
              x[1] * y[3] + x[3] * y[1] + 2 * x[2] * y[4] + 2 * x[4] * y[2],
              x[1] * y[4] + x[4] * y[1] + x[2] * y[3] + x[3] * y[2],
              x[5] * y[5])

\* np.conj / np.conjugate
CConj(x) == <<x[1], x[2], -x[3], -x[4], x[5]>>

\* sign of the real number a + b*sqrt(2)
SgnR(a, b) ==
    IF b = 0 THEN Sgn(a)
    ELSE IF a = 0 THEN Sgn(b)
    ELSE IF Sgn(a) = Sgn(b) THEN Sgn(a)
    ELSE IF a * a > 2 * b * b THEN Sgn(a) ELSE Sgn(b)

SgnRe(x) == SgnR(x[1], x[2])

SgnIm(x) == SgnR(x[3], x[4])

\* numpy orders complex numbers by real part, then by imaginary part
CLess(x, y) ==
    /\ IsFinite(x) /\ IsFinite(y)
    /\ LET d == CSub(x, y)
       IN  SgnRe(d) < 0 \/ (SgnRe(d) = 0 /\ SgnIm(d) < 0)

\* 1 / x  (a division by zero gives the non-finite value)
CInv(x) ==
    IF x[5] = 0 \/ x = CZero THEN CNaN
    ELSE LET m == CMul(x, CConj(x))       \* |x|^2 = (p + q*sqrt 2) / m[5]
             den == m[1] * m[1] - 2 * m[2] * m[2]
             minv == Norm(m[1] * m[5], -m[2] * m[5], 0, 0, den)
         IN  CMul(CConj(x), minv)

CDiv(x, y) == CMul(x, CInv(y))

ISqrt(m) == CHOOSE s \in 0..m : s * s = m

IsSquare(m) == \E s \in 0..m : s * s = m

\* np.sqrt of a non-negative rational n/d:  sqrt(n*d)/d, which lies in the
\* field when n*d or 2*n*d is a perfect square (every value the model meets)
CSqrt(x) ==
    IF x[5] = 0 THEN CNaN
    ELSE LET nd == x[1] * x[5]
         IN  CASE x[2] = 0 /\ x[3] = 0 /\ x[4] = 0 /\ x[1] >= 0 /\ IsSquare(nd) ->
                      Norm(ISqrt(nd), 0, 0, 0, x[5])
               [] x[2] = 0 /\ x[3] = 0 /\ x[4] = 0 /\ x[1] >= 0 /\ IsSquare(2 * nd) ->
                      Norm(0, ISqrt(2 * nd), 0, 0, 2 * x[5])

---------------------------------------------------------------------------
(* Vectors and matrices.  A vector is a sequence of numbers, a matrix a    *)
(* sequence of rows; basis index i (0-based in the code) is position i+1.  *)

RECURSIVE Pow2(_)
Pow2(k) == IF k = 0 THEN 1 ELSE 2 * Pow2(k - 1)

\* int(np.log2(rows)) for rows >= 1
RECURSIVE ILog2(_)
ILog2(r) == IF r < 2 THEN 0 ELSE 1 + ILog2(r \div 2)

RECURSIVE CSum(_, _)
CSum(f, k) == IF k = 0 THEN CZero ELSE CAdd(CSum(f, k - 1), f[k])

\* the sequence f with every element computed (a concrete tuple)
V(f) == <<>> \o f

Rows(A) == Len(A)

Cols(A) == IF Len(A) = 0 THEN 0 ELSE Len(A[1])

Zeros(r, c) == V([i \in 1..r |-> V([j \in 1..c |-> CZero])])

Eye(nn) == V([i \in 1..nn |-> V([j \in 1..nn |-> IF i = j THEN COne ELSE CZero])])

Scale(A, s) == V([i \in 1..Rows(A) |-> V([j \in 1..Cols(A) |-> CMul(A[i][j], s)])])

\* element-wise  A / s
DivScalar(A, s) ==
    LET inv == CInv(s)
    IN  V([i \in 1..Rows(A) |-> V([j \in 1..Cols(A) |-> CMul(A[i][j], inv)])])

MatAdd(A, B) ==
    V([i \in 1..Rows(A) |-> V([j \in 1..Cols(A) |-> CAdd(A[i][j], B[i][j])])])

\* A @ B, A.dot(B)   (defined when Cols(A) = Rows(B))
MatMul(A, B) ==
    V([i \in 1..Rows(A) |-> V([j \in 1..Cols(B) |->
        CSum([k \in 1..Cols(A) |-> CMul(A[i][k], B[k][j])], Cols(A))])])

\* A.dot(v) for a vector v
MatVec(A, v) ==
    V([i \in 1..Rows(A) |-> CSum([k \in 1..Cols(A) |-> CMul(A[i][k], v[k])], Cols(A))])

\* np.conj(v).T @ w
VDot(v, w) == CSum([k \in 1..Len(v) |-> CMul(CConj(v[k]), w[k])], Len(v))

Transpose(A) == V([j \in 1..Cols(A) |-> V([i \in 1..Rows(A) |-> A[i][j]])])

\* np.conj(A).T  and  np.conj(A.T)
Dagger(A) == V([j \in 1..Cols(A) |-> V([i \in 1..Rows(A) |-> CConj(A[i][j])])])

\* np.trace
Trace(A) == CSum([k \in 1..Rows(A) |-> A[k][k]], Rows(A))

\* np.diagonal
Diagonal(A) == V([k \in 1..Rows(A) |-> A[k][k]])

\* the matrix without row 1 and column j
Minor(A, j) ==
    V([i \in 1..(Rows(A) - 1) |-> V([c \in 1..(Rows(A) - 1) |->
        A[i + 1][IF c < j THEN c ELSE c + 1]])])

RECURSIVE Det(_)
Det(A) ==
    IF Rows(A) = 1 THEN A[1][1]
    ELSE CSum([j \in 1..Rows(A) |->
                  CMul(IF j % 2 = 1 THEN A[1][j] ELSE CNeg(A[1][j]), Det(Minor(A, j)))],
              Rows(A))

\* the members of a set of integers, in increasing order
RECURSIVE SortedSeq(_)
SortedSeq(S) ==
    IF S = {} THEN <<>>
    ELSE LET m == CHOOSE x \in S : \A y \in S : x <= y
         IN  <<m>> \o SortedSeq(S \ {m})

\* the principal submatrix of A on the index set S
Principal(A, S) ==
    LET ix == SortedSeq(S)
    IN  V([i \in 1..Len(ix) |-> V([j \in 1..Len(ix) |-> A[ix[i]][ix[j]]])])

---------------------------------------------------------------------------
(* pyquil.gate_matrices and pyquil.unitary_tools, which the simulators      *)
(* import: the projectors, the named gates, the Kraus operators, the basis  *)
(* enumerator and the operator lifter.                                      *)

CI == <<0, 0, 1, 0, 1>>

\* 1/sqrt(2)
CHalfSqrt2 == <<0, 1, 0, 0, 2>>

P0 == << <<COne, CZero>>, <<CZero, CZero>> >>

P1 == << <<CZero, CZero>>, <<CZero, COne>> >>

XMat == << <<CZero, COne>>, <<COne, CZero>> >>

YMat == << <<CZero, CNeg(CI)>>, <<CI, CZero>> >>

ZMat == << <<COne, CZero>>, <<CZero, CNeg(COne)>> >>

HMat == << <<CHalfSqrt2, CHalfSqrt2>>, <<CHalfSqrt2, CNeg(CHalfSqrt2)>> >>

CNOTMat ==
    << <<COne, CZero, CZero, CZero>>, <<CZero, COne, CZero, CZero>>,
       <<CZero, CZero, CZero, COne>>, <<CZero, CZero, COne, CZero>> >>

QUANTUM_GATES ==
    [name \in {"X", "Y", "Z", "H", "CNOT"} |->
        CASE name = "X" -> XMat
          [] name = "Y" -> YMat
          [] name = "Z" -> ZMat
          [] name = "H" -> HMat
          [] name = "CNOT" -> CNOTMat]

\* bit q of the basis index i (i counted from 0): qubit 0 is the rightmost bit
Bit(i, q) == (i \div Pow2(q)) % 2

\* all_bitstrings(n): row i is the index i written in binary, leftmost bit first
all_bitstrings(n) == V([i \in 1..Pow2(n) |-> V([j \in 1..n |-> Bit(i - 1, n - j)])])

\* the index of the small matrix that basis index i selects: the first listed
\* qubit is the leftmost bit of the small index
RECURSIVE SubIndex(_, _)
SubIndex(i, qubit_inds) ==
    IF qubit_inds = <<>> THEN 0
    ELSE Bit(i, Head(qubit_inds)) * Pow2(Len(qubit_inds) - 1)
         + SubIndex(i, Tail(qubit_inds))

SeqRange(s) == {s[k] : k \in 1..Len(s)}

\* lifted_gate_matrix(matrix, qubit_inds, n_qubits): matrix on the listed
\* qubits, the identity on the others
lifted_gate_matrix(matrix, qubit_inds, n) ==
    V([r \in 1..Pow2(n) |-> V([c \in 1..Pow2(n) |->
        IF \A q \in (0..(n - 1)) \ SeqRange(qubit_inds) : Bit(r - 1, q) = Bit(c - 1, q)
        THEN matrix[SubIndex(r - 1, qubit_inds) + 1][SubIndex(c - 1, qubit_inds) + 1]
        ELSE CZero])])

\* lifted_gate(gate, n_qubits): the named gate's matrix on the gate's qubits
lifted_gate(gate, n) == lifted_gate_matrix(QUANTUM_GATES[gate.name], gate.qubits, n)

\* KRAUS_OPS[noise_type](p=noise_prob), p a rational <<num, den>>
KRAUS_OPS(noise_type, p) ==
    LET keep == CSqrt(Q(p[2] - p[1], p[2]))
        flip == CSqrt(Q(p[1], p[2]))
    IN  CASE noise_type = "bit_flip" -> <<Scale(Eye(2), keep), Scale(XMat, flip)>>
          [] noise_type = "phase_flip" -> <<Scale(Eye(2), keep), Scale(ZMat, flip)>>

---------------------------------------------------------------------------
(* _is_valid_quantum_state.  The matrices the model hands to it have        *)
(* entries on a coarse grid (denominators at most 4), on which two numbers  *)
(* that differ differ by far more than the tolerances rtol = 1e-05 and      *)
(* atol = 1e-08: np.allclose and np.isclose then decide as equality does,   *)
(* and "no eigenvalue below -atol" as "no negative eigenvalue".             *)

allclose(A, B) ==
    /\ Rows(A) = Rows(B) /\ Cols(A) = Cols(B)
    /\ \A i \in 1..Rows(A) : \A j \in 1..Cols(A) : A[i][j] = B[i][j]

isclose(x, y) == x = y

\* all(val >= -atol for val in np.linalg.eigvals(state_matrix)), for a Hermitian
\* matrix: no eigenvalue is negative iff no principal minor is
non_neg_eigs(state_matrix) ==
    \A S \in (SUBSET (1..Rows(state_matrix))) \ {{}} :
        ~CLess(Det(Principal(state_matrix, S)), CZero)

\* _is_valid_quantum_state that tests the trace before it tests Hermitian
_is_valid_quantum_state_trace_first(state_matrix) ==
    IF ~isclose(Trace(state_matrix), COne)
    THEN "The state matrix is not trace one."
    ELSE IF ~allclose(state_matrix, Dagger(state_matrix))
    THEN "The state matrix is not Hermitian."
    ELSE IF ~non_neg_eigs(state_matrix)
    THEN "The state matrix has negative Eigenvalues of the order -1e-08."
    ELSE "ok"

\* "ok" when the function returns True, else the message of the ValueError
_is_valid_quantum_state(state_matrix) ==
    IF ~allclose(state_matrix, Dagger(state_matrix))
    THEN "The state matrix is not Hermitian."
    ELSE IF ~isclose(Trace(state_matrix), COne)
    THEN "The state matrix is not trace one."
    ELSE IF ~non_neg_eigs(state_matrix)
    THEN "The state matrix has negative Eigenvalues of the order -1e-08."
    ELSE "ok"

---------------------------------------------------------------------------
(* What a call gives back: the value it returns or the exception it raises. *)
(* ret is <<>> for a call that returns self, <<bit>> for do_measurement,    *)
(* the rows for sample_bitstrings and <<value>> for expectation.  info      *)
(* keeps the arguments and local values of the call that the properties     *)
(* speak about, draws the number of values the call took from self.rs.     *)

Ok(op, ret, info) ==
    [op |-> op, exc |-> "", msg |-> "", ret |-> ret, warned |-> FALSE, info |-> info,
     draws |-> 0]

Warned(op, info) ==
    [op |-> op, exc |-> "", msg |-> "", ret |-> <<>>, warned |-> TRUE, info |-> info,
     draws |-> 0]

Raise(op, exc, msg, info) ==
    [op |-> op, exc |-> exc, msg |-> msg, ret |-> <<>>, warned |-> FALSE, info |-> info,
     draws |-> 0]

\* the arguments of a do_post_gate_noise call
NoiseInfo(noise_type, noise_prob, qubits) ==
    [noise_type |-> noise_type, noise_prob |-> noise_prob, qubits |-> qubits]

\* the result res of a call that took k values from self.rs
Drew(res, k) == [res EXCEPT !.draws = k]

NoInfo == <<>>

MsgNoRandomState == "You have tried to perform a stochastic operation without setting the random state of the simulator."

MsgShapes == "shapes not aligned"

MsgChoice == "choice: bad probabilities"

MsgNotSquare == "The state matrix is not square."

MsgQubits == "The state matrix is not defined on the same numbers of qubits as the QVM."

---------------------------------------------------------------------------
(* numpy.random.RandomState: uniform() gives any u with 0 <= u < 1, and     *)
(* choice(a, size, p=p) any `size` indices of non-zero probability; it      *)
(* raises ValueError unless p has a entries, none negative, summing to 1.   *)

Draws == {Q(0, 1), Q(1, 2), Q(3, 4)}

choice_ok(a, p) ==
    /\ Len(p) = a
    /\ \A k \in 1..a : IsFinite(p[k]) /\ ~CLess(p[k], CZero)
    /\ CSum(p, a) = COne

\* a choice that picks among all indices, whatever their probability
choice_ignoring_p(a, size, p) == [1..size -> 0..(a - 1)]

choice(a, size, p) == [1..size -> {i \in 0..(a - 1) : p[i + 1] # CZero}]

\* np.flip(row): the columns in reverse order
flip(row) == V([j \in 1..Len(row) |-> row[Len(row) + 1 - j]])

\* the rows of possible_bitstrings selected by inds
take_rows(possible_bitstrings, inds) ==
    V([k \in 1..Len(inds) |-> possible_bitstrings[inds[k] + 1]])

\* bitstrings_of without np.flip: the columns stay in the order of all_bitstrings
bitstrings_of_unflipped(inds, n) ==
    take_rows(all_bitstrings(n), inds)

\* bitstrings = np.flip(possible_bitstrings[inds, :], axis=1)
bitstrings_of(inds, n) ==
    LET picked == take_rows(all_bitstrings(n), inds)
    IN  V([k \in 1..Len(picked) |-> flip(picked[k])])

---------------------------------------------------------------------------
(* ReferenceWavefunctionSimulator.  Each operator gives the outcomes of a   *)
(* method: the new self.wf and what the call gave back.                     *)

\* __init__: self.wf = np.zeros(2 ** n_qubits); self.wf[0] = 1
ZeroState(n) == V([k \in 1..Pow2(n) |-> IF k = 1 THEN COne ELSE CZero])

\* sample_bitstrings without the test of self.rs: it samples whether or not a
\* RandomState was given
Wavefunction_sample_bitstrings_unchecked(w, n, has_rs, n_samples) ==
    LET probabilities == V([k \in 1..Len(w) |-> CMul(CConj(w[k]), w[k])])
    IN  IF ~choice_ok(Pow2(n), probabilities)
        THEN {[wf |-> w, result |-> Raise("sample_bitstrings", "ValueError", MsgChoice,
                                          [n_samples |-> n_samples])]}
        ELSE {[wf |-> w,
               result |-> Drew(Ok("sample_bitstrings", bitstrings_of(inds, n),
                             [n_samples |-> n_samples, inds |-> inds]), n_samples)] :
                 inds \in choice(Pow2(n), n_samples, probabilities)}

Wavefunction_sample_bitstrings(w, n, has_rs, n_samples) ==
    IF ~has_rs
    THEN {[wf |-> w, result |-> Raise("sample_bitstrings", "ValueError", MsgNoRandomState,
                                      [n_samples |-> n_samples])]}
    ELSE LET probabilities == V([k \in 1..Len(w) |-> CMul(CConj(w[k]), w[k])])
         IN  IF ~choice_ok(Pow2(n), probabilities)
             THEN {[wf |-> w, result |-> Raise("sample_bitstrings", "ValueError", MsgChoice,
                                               [n_samples |-> n_samples])]}
             ELSE {[wf |-> w,
                    result |-> Drew(Ok("sample_bitstrings", bitstrings_of(inds, n),
                                  [n_samples |-> n_samples, inds |-> inds]), n_samples)] :
                      inds \in choice(Pow2(n), n_samples, probabilities)}

\* do_gate_matrix that keeps the real part of the new vector only
Wavefunction_do_gate_matrix_real(w, n, matrix, qubits) ==
    LET new == MatVec(lifted_gate_matrix(matrix, qubits, n), w)
    IN  [wf |-> V([k \in 1..Len(new) |-> Norm(new[k][1], new[k][2], 0, 0, new[k][5])]),
         result |-> Ok("do_gate_matrix", <<>>, [matrix |-> matrix, qubits |-> qubits])]

\* do_gate_matrix that refuses a matrix that is not unitary
Wavefunction_do_gate_matrix_checked(w, n, matrix, qubits) ==
    IF MatMul(Dagger(matrix), matrix) # Eye(Rows(matrix))
    THEN [wf |-> w,
          result |-> Raise("do_gate_matrix", "ValueError", "matrix is not unitary",
                           [matrix |-> matrix, qubits |-> qubits])]
    ELSE [wf |-> MatVec(lifted_gate_matrix(matrix, qubits, n), w),
          result |-> Ok("do_gate_matrix", <<>>, [matrix |-> matrix, qubits |-> qubits])]

Wavefunction_do_gate(w, n, gate) ==
    LET unitary == lifted_gate(gate, n)
    IN  [wf |-> MatVec(unitary, w), result |-> Ok("do_gate", <<>>, NoInfo)]

Wavefunction_do_gate_matrix(w, n, matrix, qubits) ==
    LET unitary == lifted_gate_matrix(matrix, qubits, n)
    IN  [wf |-> MatVec(unitary, w),
         result |-> Ok("do_gate_matrix", <<>>, [matrix |-> matrix, qubits |-> qubits])]

\* do_measurement that returns the bit and leaves self.wf as it was
Wavefunction_do_measurement_no_collapse(w, n, has_rs, qubit, u) ==
    IF ~has_rs
    THEN [wf |-> w,
          result |-> Raise("do_measurement", "ValueError", MsgNoRandomState,
                           [qubit |-> qubit, u |-> u])]
    ELSE LET proj_psi == MatVec(lifted_gate_matrix(P0, <<qubit>>, n), w)
             prob_zero == VDot(proj_psi, proj_psi)
             info == [qubit |-> qubit, u |-> u, prob_zero |-> prob_zero]
         IN  [wf |-> w,
              result |-> Drew(Ok("do_measurement",
                                 IF CLess(u, prob_zero) THEN <<0>> ELSE <<1>>, info), 1)]

\* u is the value self.rs.uniform() returns
\* do_measurement with  uniform() <= prob_zero  in place of  uniform() < prob_zero
Wavefunction_do_measurement_le(w, n, has_rs, qubit, u) ==
    IF ~has_rs
    THEN [wf |-> w,
          result |-> Raise("do_measurement", "ValueError", MsgNoRandomState,
                           [qubit |-> qubit, u |-> u])]
    ELSE LET measure_0 == lifted_gate_matrix(P0, <<qubit>>, n)
             proj_psi == MatVec(measure_0, w)
             prob_zero == VDot(proj_psi, proj_psi)
             info == [qubit |-> qubit, u |-> u, prob_zero |-> prob_zero]
         IN  IF ~CLess(prob_zero, u)
             THEN LET unitary == MatMul(measure_0,
                                        DivScalar(Eye(Pow2(n)), CSqrt(prob_zero)))
                  IN  [wf |-> MatVec(unitary, w),
                       result |-> Drew(Ok("do_measurement", <<0>>, info), 1)]
             ELSE LET measure_1 == lifted_gate_matrix(P1, <<qubit>>, n)
                      unitary == MatMul(measure_1,
                                        DivScalar(Eye(Pow2(n)),
                                                  CSqrt(CSub(COne, prob_zero))))
                  IN  [wf |-> MatVec(unitary, w),
                       result |-> Drew(Ok("do_measurement", <<1>>, info), 1)]

Wavefunction_do_measurement(w, n, has_rs, qubit, u) ==
    IF ~has_rs
    THEN [wf |-> w,
          result |-> Raise("do_measurement", "ValueError", MsgNoRandomState,
                           [qubit |-> qubit, u |-> u])]
    ELSE LET measure_0 == lifted_gate_matrix(P0, <<qubit>>, n)
             proj_psi == MatVec(measure_0, w)
             prob_zero == VDot(proj_psi, proj_psi)
             info == [qubit |-> qubit, u |-> u, prob_zero |-> prob_zero]
         IN  IF CLess(u, prob_zero)
             THEN LET unitary == MatMul(measure_0,
                                        DivScalar(Eye(Pow2(n)), CSqrt(prob_zero)))
                  IN  [wf |-> MatVec(unitary, w),
                       result |-> Drew(Ok("do_measurement", <<0>>, info), 1)]
             ELSE LET measure_1 == lifted_gate_matrix(P1, <<qubit>>, n)
                      unitary == MatMul(measure_1,
                                        DivScalar(Eye(Pow2(n)),
                                                  CSqrt(CSub(COne, prob_zero))))
                  IN  [wf |-> MatVec(unitary, w),
                       result |-> Drew(Ok("do_measurement", <<1>>, info), 1)]

\* _term_expectation(wf, term, n_qubits); term.ops lists <<qubit, "X"|"Y"|"Z">>
RECURSIVE apply_term_ops(_, _, _)
apply_term_ops(wf2, ops, n) ==
    IF ops = <<>> THEN wf2
    ELSE LET op_mat == lifted_gate_matrix(QUANTUM_GATES[Head(ops)[2]], <<Head(ops)[1]>>, n)
         IN  apply_term_ops(MatVec(op_mat, wf2), Tail(ops), n)

\* the term's expectation with wf.T in place of wf.conj().T
_term_expectation_no_conj(w, term, n) ==
    LET wf2 == apply_term_ops(w, term.ops, n)
    IN  CMul(term.coefficient, CSum([k \in 1..Len(w) |-> CMul(w[k], wf2[k])], Len(w)))

_term_expectation(w, term, n) ==
    CMul(term.coefficient, VDot(w, apply_term_ops(w, term.ops, n)))

\* operator is a sequence of terms (a PauliSum; a lone PauliTerm is wrapped)
Wavefunction_expectation(w, n, operator) ==
    [wf |-> w,
     result |-> Ok("expectation",
                   <<CSum([k \in 1..Len(operator) |-> _term_expectation(w, operator[k], n)],
                          Len(operator))>>,
                   [operator |-> operator])]

\* reset that sets wf[0] = 1 without filling the vector with zeros first
Wavefunction_reset_no_fill(w) ==
    [wf |-> V([k \in 1..Len(w) |-> IF k = 1 THEN COne ELSE w[k]]),
     result |-> Ok("reset", <<>>, NoInfo)]

\* self.wf.fill(0); self.wf[0] = 1
Wavefunction_reset(w) ==
    [wf |-> V([k \in 1..Len(w) |-> IF k = 1 THEN COne ELSE CZero]),
     result |-> Ok("reset", <<>>, NoInfo)]

\* do_post_gate_noise that skips a noise_prob close to 0 with a warning, as
\* the density simulator does, before it raises
Wavefunction_do_post_gate_noise_skipping(w, noise_type, noise_prob, qubits) ==
    IF Abs(noise_prob[1]) <= noise_prob[2] \div 100000000
    THEN [wf |-> w,
          result |-> Warned("do_post_gate_noise", NoiseInfo(noise_type, noise_prob, qubits))]
    ELSE [wf |-> w,
          result |-> Raise("do_post_gate_noise", "NotImplementedError",
                           "The reference wavefunction simulator cannot handle noise",
                           NoiseInfo(noise_type, noise_prob, qubits))]

Wavefunction_do_post_gate_noise(w, noise_type, noise_prob, qubits) ==
    [wf |-> w,
     result |-> Raise("do_post_gate_noise", "NotImplementedError",
                      "The reference wavefunction simulator cannot handle noise",
                      NoiseInfo(noise_type, noise_prob, qubits))]

---------------------------------------------------------------------------
(* The arrays of a ReferenceDensitySimulator.  self.density and             *)
(* self.initial_density are references: the heap maps each array object to  *)
(* its contents.  "o1" and "o2" are arrays the simulator allocates (it      *)
(* never holds more than two), the other objects are the caller's matrices  *)
(* that set_initial_state is called with.  An array no reference reaches is *)
(* dropped (its entry is <<>>).                                             *)

OwnRefs == {"o1", "o2"}

NoRef == "none"

CHalf == Q(1, 2)

CIHalf == <<0, 0, 1, 0, 2>>

\* the matrices of the caller
CallerMatrices ==
    [plus     |-> << <<CHalf, CHalf>>, <<CHalf, CHalf>> >>,
     ypos     |-> << <<CHalf, CNeg(CIHalf)>>, <<CIHalf, CHalf>> >>,
     nonherm  |-> << <<COne, CZero>>, <<COne, CZero>> >>,
     isym     |-> << <<CHalf, CIHalf>>, <<CIHalf, CHalf>> >>,
     tracetwo |-> << <<COne, CZero>>, <<CZero, COne>> >>,
     negeig   |-> << <<CHalf, COne>>, <<COne, CHalf>> >>,
     rect     |-> << <<COne, CZero, CZero>>, <<CZero, CZero, CZero>> >>,
     three    |-> << <<COne, CZero, CZero>>, <<CZero, CZero, CZero>>,
                     <<CZero, CZero, CZero>> >>,
     bell     |-> << <<CHalf, CZero, CZero, CHalf>>, <<CZero, CZero, CZero, CZero>>,
                     <<CZero, CZero, CZero, CZero>>, <<CHalf, CZero, CZero, CHalf>> >>,
     arg      |-> << <<COne, Q(2, 1)>>, <<Q(2, 1), COne>> >>]

CallerRefs == DOMAIN CallerMatrices

Refs == OwnRefs \cup CallerRefs

\* np.zeros((2 ** n, 2 ** n)) with [0, 0] = 1
ZeroProjector(n) ==
    V([i \in 1..Pow2(n) |-> V([j \in 1..Pow2(n) |-> IF i = 1 /\ j = 1 THEN COne ELSE CZero])])

\* the heap without the simulator's arrays that no reference in live reaches
Collect(h, live) ==
    [r \in DOMAIN h |-> IF r \in OwnRefs /\ r \notin live THEN <<>> ELSE h[r]]

\* self.density[:] = new_array: the array self.density names is overwritten in
\* place, and with it every other name of that array
BindDensity_in_place(h, cur, init, new_array) ==
    [heap |-> Collect([h EXCEPT ![cur] = new_array], {cur, init}), density |-> cur]

\* self.density = new_array: the name is rebound to a fresh array, the array
\* it named before is left as it was
BindDensity(h, cur, init, new_array) ==
    LET o == CHOOSE r \in OwnRefs : r # init
    IN  [heap |-> Collect([h EXCEPT ![o] = new_array], {o, init}), density |-> o]

\* self.initial_density = new_array, a fresh array
BindInitial(h, cur, init, new_array) ==
    LET o == CHOOSE r \in OwnRefs : r # cur
    IN  [heap |-> Collect([h EXCEPT ![o] = new_array], {o, cur}), initial_density |-> o]

\* the fields of self that a method of the density simulator can change
Fields(h, d, i, res) == [heap |-> h, density |-> d, initial_density |-> i, result |-> res]

\* the fields out of a call that took k values from self.rs
DrewFields(out, k) == [out EXCEPT !.result = Drew(out.result, k)]

Same(self, res) == Fields(self.heap, self.density, self.initial_density, res)

\* self.density[:] = new_array in place of self.density = new_array
WithDensity_in_place(self, new_array, res) ==
    Fields([self.heap EXCEPT ![self.density] = new_array], self.density,
           self.initial_density, res)

WithDensity(self, new_array, res) ==
    LET b == BindDensity(self.heap, self.density, self.initial_density, new_array)
    IN  Fields(b.heap, b.density, self.initial_density, res)

---------------------------------------------------------------------------
(* ReferenceDensitySimulator.  self is [n_qubits, rs, heap, density,        *)
(* initial_density]; each operator gives the fields after the call and      *)
(* what the call gave back.                                                 *)

\* set_initial_state that stores the matrix before it examines it
Density_set_initial_state_store_first(self, state_matrix) ==
    IF state_matrix = NoRef
    THEN LET b == BindInitial(self.heap, self.density, self.initial_density,
                              ZeroProjector(self.n_qubits))
         IN  Fields(b.heap, self.density, b.initial_density, Ok("set_initial_state", <<>>, NoInfo))
    ELSE LET m == self.heap[state_matrix]
             rows == Rows(m)
             cols == Cols(m)
             stored == Collect(self.heap, {self.density, state_matrix})
         IN  IF rows # cols
             THEN Fields(stored, self.density, state_matrix,
                         Raise("set_initial_state", "ValueError", MsgNotSquare, NoInfo))
             ELSE IF self.n_qubits # ILog2(rows)
             THEN Fields(stored, self.density, state_matrix,
                         Raise("set_initial_state", "ValueError", MsgQubits, NoInfo))
             ELSE IF _is_valid_quantum_state(m) = "ok"
             THEN Fields(stored, self.density, state_matrix,
                         Ok("set_initial_state", <<>>, NoInfo))
             ELSE Fields(stored, self.density, state_matrix,
                         Raise("set_initial_state", "ValueError",
                               _is_valid_quantum_state(m), NoInfo))

\* set_initial_state that also makes the new initial state the current density
Density_set_initial_state_and_density(self, state_matrix) ==
    IF state_matrix = NoRef
    THEN LET b == BindInitial(self.heap, self.density, self.initial_density,
                              ZeroProjector(self.n_qubits))
         IN  Fields(Collect(b.heap, {b.initial_density}), b.initial_density,
                    b.initial_density, Ok("set_initial_state", <<>>, NoInfo))
    ELSE LET m == self.heap[state_matrix]
             rows == Rows(m)
             cols == Cols(m)
         IN  IF rows # cols
             THEN Same(self, Raise("set_initial_state", "ValueError", MsgNotSquare, NoInfo))
             ELSE IF self.n_qubits # ILog2(rows)
             THEN Same(self, Raise("set_initial_state", "ValueError", MsgQubits, NoInfo))
             ELSE IF _is_valid_quantum_state(m) = "ok"
             THEN Fields(Collect(self.heap, {state_matrix}),
                         state_matrix, state_matrix, Ok("set_initial_state", <<>>, NoInfo))
             ELSE Same(self, Raise("set_initial_state", "ValueError",
                                   _is_valid_quantum_state(m), NoInfo))

Density_set_initial_state(self, state_matrix) ==
    IF state_matrix = NoRef     \* None
    THEN LET b == BindInitial(self.heap, self.density, self.initial_density,
                              ZeroProjector(self.n_qubits))
         IN  Fields(b.heap, self.density, b.initial_density, Ok("set_initial_state", <<>>, NoInfo))
    ELSE LET m == self.heap[state_matrix]
             rows == Rows(m)
             cols == Cols(m)
         IN  IF rows # cols
             THEN Same(self, Raise("set_initial_state", "ValueError", MsgNotSquare, NoInfo))
             ELSE IF self.n_qubits # ILog2(rows)
             THEN Same(self, Raise("set_initial_state", "ValueError", MsgQubits, NoInfo))
             ELSE IF _is_valid_quantum_state(m) = "ok"
             THEN Fields(Collect(self.heap, {self.density, state_matrix}),
                         self.density, state_matrix, Ok("set_initial_state", <<>>, NoInfo))
             ELSE Same(self, Raise("set_initial_state", "ValueError",
                                   _is_valid_quantum_state(m), NoInfo))

\* np.real_if_close(np.diagonal(self.density)), negative entries set to 0,
\* divided by their sum
density_probabilities(rho) ==
    LET diag == Diagonal(rho)
        clamped == V([k \in 1..Len(diag) |->
                        IF CLess(diag[k], CZero) THEN CZero ELSE diag[k]])
        total == CSum(clamped, Len(clamped))
    IN  V([k \in 1..Len(clamped) |-> CDiv(clamped[k], total)])

\* sample_bitstrings that leaves the density collapsed on the last sampled
\* basis state
Density_sample_bitstrings_collapsing(self, n_samples) ==
    IF ~self.rs
    THEN {Same(self, Raise("sample_bitstrings", "ValueError", MsgNoRandomState,
                           [n_samples |-> n_samples]))}
    ELSE LET probabilities == density_probabilities(self.heap[self.density])
             dim == Pow2(self.n_qubits)
         IN  IF ~choice_ok(dim, probabilities)
             THEN {Same(self, Raise("sample_bitstrings", "ValueError", MsgChoice,
                                    [n_samples |-> n_samples]))}
             ELSE {IF n_samples = 0
                   THEN Same(self, Ok("sample_bitstrings", <<>>,
                                      [n_samples |-> n_samples, inds |-> inds]))
                   ELSE WithDensity(self,
                            V([r \in 1..dim |-> V([c \in 1..dim |->
                                IF r = inds[n_samples] + 1 /\ c = r THEN COne ELSE CZero])]),
                            Drew(Ok("sample_bitstrings", bitstrings_of(inds, self.n_qubits),
                               [n_samples |-> n_samples, inds |-> inds]), n_samples)) :
                      inds \in choice(dim, n_samples, probabilities)}

Density_sample_bitstrings(self, n_samples) ==
    IF ~self.rs
    THEN {Same(self, Raise("sample_bitstrings", "ValueError", MsgNoRandomState,
                           [n_samples |-> n_samples]))}
    ELSE LET probabilities == density_probabilities(self.heap[self.density])
         IN  IF ~choice_ok(Pow2(self.n_qubits), probabilities)
             THEN {Same(self, Raise("sample_bitstrings", "ValueError", MsgChoice,
                                    [n_samples |-> n_samples]))}
             ELSE {Same(self, Drew(Ok("sample_bitstrings", bitstrings_of(inds, self.n_qubits),
                                 [n_samples |-> n_samples, inds |-> inds]), n_samples)) :
                      inds \in choice(Pow2(self.n_qubits), n_samples, probabilities)}

\* the update with unitary.T in place of np.conj(unitary).T
conjugate_by_transpose(self, unitary, op, ret, info) ==
    LET rho == self.heap[self.density]
    IN  IF Cols(unitary) # Rows(rho)
        THEN Same(self, Raise(op, "ValueError", MsgShapes, info))
        ELSE WithDensity(self, MatMul(MatMul(unitary, rho), Transpose(unitary)),
                         Ok(op, ret, info))

\* self.density = unitary.dot(self.density).dot(np.conj(unitary).T)
conjugate_by(self, unitary, op, ret, info) ==
    LET rho == self.heap[self.density]
    IN  IF Cols(unitary) # Rows(rho)
        THEN Same(self, Raise(op, "ValueError", MsgShapes, info))
        ELSE WithDensity(self, MatMul(MatMul(unitary, rho), Dagger(unitary)),
                         Ok(op, ret, info))

Density_do_gate(self, gate) ==
    conjugate_by(self, lifted_gate(gate, self.n_qubits), "do_gate", <<>>, NoInfo)

Density_do_gate_matrix(self, matrix, qubits) ==
    conjugate_by(self, lifted_gate_matrix(matrix, qubits, self.n_qubits),
                 "do_gate_matrix", <<>>, [matrix |-> matrix, qubits |-> qubits])

\* do_measurement with  uniform() <= prob_zero  in place of  uniform() < prob_zero
Density_do_measurement_le(self, qubit, u) ==
    IF ~self.rs
    THEN Same(self, Raise("do_measurement", "ValueError", MsgNoRandomState,
                          [qubit |-> qubit, u |-> u]))
    ELSE LET measure_0 == lifted_gate_matrix(P0, <<qubit>>, self.n_qubits)
             rho == self.heap[self.density]
         IN  IF Cols(measure_0) # Rows(rho)
             THEN Same(self, Raise("do_measurement", "ValueError", MsgShapes,
                                   [qubit |-> qubit, u |-> u]))
             ELSE LET prob_zero == Trace(MatMul(measure_0, rho))
                      info == [qubit |-> qubit, u |-> u, prob_zero |-> prob_zero]
                  IN  IF ~CLess(prob_zero, u)
                      THEN DrewFields(conjugate_by(self,
                               MatMul(measure_0,
                                      DivScalar(Eye(Pow2(self.n_qubits)), CSqrt(prob_zero))),
                               "do_measurement", <<0>>, info), 1)
                      ELSE DrewFields(conjugate_by(self,
                               MatMul(lifted_gate_matrix(P1, <<qubit>>, self.n_qubits),
                                      DivScalar(Eye(Pow2(self.n_qubits)),
                                                CSqrt(CSub(COne, prob_zero)))),
                               "do_measurement", <<1>>, info), 1)

\* do_measurement that projects without dividing by the square root of the
\* outcome's probability
Density_do_measurement_unnormalised(self, qubit, u) ==
    IF ~self.rs
    THEN Same(self, Raise("do_measurement", "ValueError", MsgNoRandomState,
                          [qubit |-> qubit, u |-> u]))
    ELSE LET measure_0 == lifted_gate_matrix(P0, <<qubit>>, self.n_qubits)
             rho == self.heap[self.density]
         IN  IF Cols(measure_0) # Rows(rho)
             THEN Same(self, Raise("do_measurement", "ValueError", MsgShapes,
                                   [qubit |-> qubit, u |-> u]))
             ELSE LET prob_zero == Trace(MatMul(measure_0, rho))
                      info == [qubit |-> qubit, u |-> u, prob_zero |-> prob_zero]
                  IN  IF CLess(u, prob_zero)
                      THEN DrewFields(conjugate_by(self, measure_0, "do_measurement",
                                                   <<0>>, info), 1)
                      ELSE DrewFields(conjugate_by(self,
                               lifted_gate_matrix(P1, <<qubit>>, self.n_qubits),
                               "do_measurement", <<1>>, info), 1)

Density_do_measurement(self, qubit, u) ==
    IF ~self.rs
    THEN Same(self, Raise("do_measurement", "ValueError", MsgNoRandomState,
                          [qubit |-> qubit, u |-> u]))
    ELSE LET measure_0 == lifted_gate_matrix(P0, <<qubit>>, self.n_qubits)
             rho == self.heap[self.density]
         IN  IF Cols(measure_0) # Rows(rho)
             THEN Same(self, Raise("do_measurement", "ValueError", MsgShapes,
                                   [qubit |-> qubit, u |-> u]))
             ELSE LET prob_zero == Trace(MatMul(measure_0, rho))
                      info == [qubit |-> qubit, u |-> u, prob_zero |-> prob_zero]
                  IN  IF CLess(u, prob_zero)
                      THEN DrewFields(conjugate_by(self,
                               MatMul(measure_0,
                                      DivScalar(Eye(Pow2(self.n_qubits)), CSqrt(prob_zero))),
                               "do_measurement", <<0>>, info), 1)
                      ELSE DrewFields(conjugate_by(self,
                               MatMul(lifted_gate_matrix(P1, <<qubit>>, self.n_qubits),
                                      DivScalar(Eye(Pow2(self.n_qubits)),
                                                CSqrt(CSub(COne, prob_zero)))),
                               "do_measurement", <<1>>, info), 1)

Density_expectation(self, operator) ==
    Same(self, Raise("expectation", "NotImplementedError", "To implement", NoInfo))

\* reset that takes a value from self.rs
Density_reset_drawing(self) ==
    Fields(Collect(self.heap, {self.initial_density}),
           self.initial_density, self.initial_density,
           Drew(Ok("reset", <<>>, NoInfo), 1))

\* self.density = self.initial_density: both names now hold the same array
Density_reset(self) ==
    Fields(Collect(self.heap, {self.initial_density}),
           self.initial_density, self.initial_density, Ok("reset", <<>>, NoInfo))

\* np.isclose(noise_prob, 0.0) for the rational noise_prob = <<num, den>>:
\* |noise_prob| <= atol = 1e-08
isclose_zero(noise_prob) == Abs(noise_prob[1]) <= noise_prob[2] \div 100000000

\* new_density = sum of  K.dot(rho).dot(np.conj(K.T))  over the lifted Kraus
\* operators K of one qubit, starting from np.zeros_like(rho)
RECURSIVE kraus_sum(_, _, _, _)
kraus_sum(rho, kraus_ops, q, n) ==
    IF kraus_ops = <<>> THEN Zeros(Rows(rho), Cols(rho))
    ELSE LET lifted_kraus_op == lifted_gate_matrix(kraus_ops[Len(kraus_ops)], <<q>>, n)
         IN  MatAdd(kraus_sum(rho, SubSeq(kraus_ops, 1, Len(kraus_ops) - 1), q, n),
                    MatMul(MatMul(lifted_kraus_op, rho), Dagger(lifted_kraus_op)))

\* the loop over qubits with every qubit's channel applied to the density the
\* call started from: the last listed qubit's result is what is kept
noise_loop_from_start(rho, kraus_ops, qubits, n) ==
    IF qubits = <<>> THEN rho
    ELSE kraus_sum(rho, kraus_ops, qubits[Len(qubits)], n)

\* for q in qubits: self.density = new_density
RECURSIVE noise_loop(_, _, _, _)
noise_loop(rho, kraus_ops, qubits, n) ==
    IF qubits = <<>> THEN rho
    ELSE noise_loop(kraus_sum(rho, kraus_ops, Head(qubits), n), kraus_ops, Tail(qubits), n)

\* do_post_gate_noise that skips a noise_prob close to 0 without the warning
Density_do_post_gate_noise_silent(self, noise_type, noise_prob, qubits) ==
    IF isclose_zero(noise_prob)
    THEN Same(self, Ok("do_post_gate_noise", <<>>, NoiseInfo(noise_type, noise_prob, qubits)))
    ELSE IF qubits = <<>>
    THEN Same(self, Ok("do_post_gate_noise", <<>>, NoiseInfo(noise_type, noise_prob, qubits)))
    ELSE IF Rows(self.heap[self.density]) # Pow2(self.n_qubits)
    THEN Same(self, Raise("do_post_gate_noise", "ValueError", MsgShapes,
                          NoiseInfo(noise_type, noise_prob, qubits)))
    ELSE WithDensity(self,
                     noise_loop(self.heap[self.density], KRAUS_OPS(noise_type, noise_prob),
                                qubits, self.n_qubits),
                     Ok("do_post_gate_noise", <<>>, NoiseInfo(noise_type, noise_prob, qubits)))

Density_do_post_gate_noise(self, noise_type, noise_prob, qubits) ==
    IF isclose_zero(noise_prob)
    THEN Same(self, Warned("do_post_gate_noise", NoiseInfo(noise_type, noise_prob, qubits)))
    ELSE IF qubits = <<>>
    THEN Same(self, Ok("do_post_gate_noise", <<>>, NoiseInfo(noise_type, noise_prob, qubits)))
    ELSE IF Rows(self.heap[self.density]) # Pow2(self.n_qubits)
    THEN Same(self, Raise("do_post_gate_noise", "ValueError", MsgShapes,
                          NoiseInfo(noise_type, noise_prob, qubits)))
    ELSE WithDensity(self,
                     noise_loop(self.heap[self.density], KRAUS_OPS(noise_type, noise_prob),
                                qubits, self.n_qubits),
                     Ok("do_post_gate_noise", <<>>, NoiseInfo(noise_type, noise_prob, qubits)))

---------------------------------------------------------------------------
(* The state machine: one simulator of either class, and its caller.        *)

VARIABLES
    kind,               \* "wf": ReferenceWavefunctionSimulator, "density": ReferenceDensitySimulator
    n_qubits,           \* self.n_qubits
    rs,                 \* TRUE when a RandomState was given, FALSE when self.rs is None
    wf,                 \* self.wf  (<<>> for the density simulator)
    heap,               \* the contents of the array objects
    density,            \* self.density, a reference  (NoRef for the wavefunction simulator)
    initial_density,    \* self.initial_density, a reference
    configured,         \* history: the matrix of the last set_initial_state that returned
    result,             \* what the last call gave back
    calls,              \* the number of matrices of MatrixCalls applied so far
    other,              \* a second ReferenceDensitySimulator of the same caller: its
                        \* density and initial_density (<<>> when there is none)
    qc                  \* _quantum_computer.py: the arguments and locals of the function
                        \* under way (<<>> for the simulators)

vars == <<kind, n_qubits, rs, wf, heap, density, initial_density, configured, result,
          calls, other, qc>>

QubitCounts == {1, 2}

Qubits(n) == 0..(n - 1)

\* the lists <<c, t>> of two different qubits
DistinctPairs(n) == {ct \in Qubits(n) \X Qubits(n) : ct[1] # ct[2]}

\* the Gate objects handed to do_gate
Gates(n) ==
    {[name |-> "X", qubits |-> <<q>>] : q \in Qubits(n)}
    \cup {[name |-> "H", qubits |-> <<0>>]}
    \cup {[name |-> "CNOT", qubits |-> ct] : ct \in DistinctPairs(n)}

\* the <<matrix, qubits>> handed to do_gate_matrix
GateMatrices(n) == {<<YMat, <<0>>>>, <<ZMat, <<n - 1>>>>}

\* the PauliSums handed to expectation
Observables(n) ==
    {<<[ops |-> <<<<q, "Z">>>>, coefficient |-> COne]>> : q \in Qubits(n)}
    \cup {<<[ops |-> <<<<0, "X">>>>, coefficient |-> COne]>>}
    \cup {<<[ops |-> <<<<n - 1, "Z">>>>, coefficient |-> Q(-1, 2)]>>}

\* the <<noise_type, noise_prob, qubits>> handed to do_post_gate_noise, with
\* noise_prob as <<num, den>>: 0, 1e-09, 1e-08, 1/2 and 1
NoiseCalls(n) ==
    {<<"bit_flip", <<0, 1>>, <<0>>>>,
     <<"bit_flip", <<1, 1>>, <<0, 0>>>>,
     <<"bit_flip", <<1, 1000000000>>, <<n - 1, 0>>>>,
     <<"phase_flip", <<1, 100000000>>, <<0>>>>,
     <<"bit_flip", <<1, 2>>, <<>>>>,
     <<"bit_flip", <<1, 2>>, <<0>>>>,
     <<"phase_flip", <<1, 2>>, <<n - 1, 0>>>>}

StartHeap(own) ==
    [r \in Refs |-> IF r \in CallerRefs THEN CallerMatrices[r]
                    ELSE IF r = "o1" THEN own ELSE <<>>]

Self ==
    [n_qubits |-> n_qubits, rs |-> rs, heap |-> heap, density |-> density,
     initial_density |-> initial_density]

\* __init__ of either class
Init ==
    /\ kind \in {"wf", "density"}
    /\ n_qubits \in QubitCounts
    /\ rs \in BOOLEAN
    /\ wf = IF kind = "wf" THEN ZeroState(n_qubits) ELSE <<>>
    /\ heap = StartHeap(IF kind = "density" THEN ZeroProjector(n_qubits) ELSE <<>>)
    /\ density = IF kind = "density" THEN "o1" ELSE NoRef
    /\ initial_density = density
    /\ configured = IF kind = "density" THEN ZeroProjector(n_qubits) ELSE <<>>
    /\ result = Ok("__init__", <<>>, NoInfo)
    /\ calls = 0
    /\ other = <<>>
    /\ qc = <<>>

WfUpdate(out) ==
    /\ wf' = out.wf
    /\ result' = out.result
    /\ UNCHANGED <<kind, n_qubits, rs, heap, density, initial_density, configured, other,
                    qc>>

WfStep(out) == WfUpdate(out) /\ UNCHANGED calls

DmUpdate(out) ==
    /\ heap' = out.heap
    /\ density' = out.density
    /\ initial_density' = out.initial_density
    /\ result' = out.result
    /\ UNCHANGED <<kind, n_qubits, rs, wf, other, qc>>

DmStep(out) == DmUpdate(out) /\ UNCHANGED calls

W_sample_bitstrings(n_samples) ==
    /\ kind = "wf"
    /\ \E out \in Wavefunction_sample_bitstrings(wf, n_qubits, rs, n_samples) : WfStep(out)

W_do_gate(gate) ==
    /\ kind = "wf"
    /\ WfStep(Wavefunction_do_gate(wf, n_qubits, gate))

W_do_gate_matrix(matrix, qubits) ==
    /\ kind = "wf"
    /\ WfStep(Wavefunction_do_gate_matrix(wf, n_qubits, matrix, qubits))

W_do_measurement(qubit, u) ==
    /\ kind = "wf"
    /\ WfStep(Wavefunction_do_measurement(wf, n_qubits, rs, qubit, u))

W_expectation(operator) ==
    /\ kind = "wf"
    /\ WfStep(Wavefunction_expectation(wf, n_qubits, operator))

W_reset ==
    /\ kind = "wf"
    /\ WfStep(Wavefunction_reset(wf))

W_do_post_gate_noise(noise_type, noise_prob, qubits) ==
    /\ kind = "wf"
    /\ WfStep(Wavefunction_do_post_gate_noise(wf, noise_type, noise_prob, qubits))

D_set_initial_state(state_matrix) ==
    /\ kind = "density"
    /\ LET out == Density_set_initial_state(Self, state_matrix)
       IN  /\ DmStep(out)
           /\ configured' = IF out.result.exc # "" THEN configured
                            ELSE IF state_matrix = NoRef THEN ZeroProjector(n_qubits)
                            ELSE heap[state_matrix]

D_sample_bitstrings(n_samples) ==
    /\ kind = "density"
    /\ \E out \in Density_sample_bitstrings(Self, n_samples) : DmStep(out)
    /\ UNCHANGED configured

D_do_gate(gate) ==
    /\ kind = "density"
    /\ DmStep(Density_do_gate(Self, gate))
    /\ UNCHANGED configured

D_do_gate_matrix(matrix, qubits) ==
    /\ kind = "density"
    /\ DmStep(Density_do_gate_matrix(Self, matrix, qubits))
    /\ UNCHANGED configured

D_do_measurement(qubit, u) ==
    /\ kind = "density"
    /\ DmStep(Density_do_measurement(Self, qubit, u))
    /\ UNCHANGED configured

D_expectation(operator) ==
    /\ kind = "density"
    /\ DmStep(Density_expectation(Self, operator))
    /\ UNCHANGED configured

D_reset ==
    /\ kind = "density"
    /\ DmStep(Density_reset(Self))
    /\ UNCHANGED configured

D_do_post_gate_noise(noise_type, noise_prob, qubits) ==
    /\ kind = "density"
    /\ DmStep(Density_do_post_gate_noise(Self, noise_type, noise_prob, qubits))
    /\ UNCHANGED configured

Next ==
    \/ \E k \in 0..MaxSamples : W_sample_bitstrings(k)
    \/ \E gate \in Gates(n_qubits) : W_do_gate(gate)
    \/ \E mq \in GateMatrices(n_qubits) : W_do_gate_matrix(mq[1], mq[2])
    \/ \E q \in Qubits(n_qubits), u \in Draws : W_do_measurement(q, u)
    \/ \E o \in Observables(n_qubits) : W_expectation(o)
    \/ W_reset
    \/ \E c \in NoiseCalls(n_qubits) : W_do_post_gate_noise(c[1], c[2], c[3])
    \/ \E m \in CallerRefs \cup {NoRef} : D_set_initial_state(m)
    \/ \E k \in 0..MaxSamples : D_sample_bitstrings(k)
    \/ \E gate \in Gates(n_qubits) : D_do_gate(gate)
    \/ \E mq \in GateMatrices(n_qubits) : D_do_gate_matrix(mq[1], mq[2])
    \/ \E q \in Qubits(n_qubits), u \in Draws : D_do_measurement(q, u)
    \/ \E o \in Observables(n_qubits) : D_expectation(o)
    \/ D_reset
    \/ \E c \in NoiseCalls(n_qubits) : D_do_post_gate_noise(c[1], c[2], c[3])

---------------------------------------------------------------------------
(* The validity check on its own: a one-qubit density simulator whose       *)
(* caller hands one 2x2 matrix, of any entries of a small set, to           *)
(* set_initial_state.                                                       *)

\* the entries of the caller's matrix: 0, 1, 1/2, -1/2, i/2, -i/2 and 2
Entries == {CZero, COne, CHalf, Q(-1, 2), CIHalf, CNeg(CIHalf), Q(2, 1)}

InitValid ==
    /\ kind = "density"
    /\ n_qubits = 1
    /\ rs = FALSE
    /\ wf = <<>>
    /\ \E a \in Entries, b \in Entries, c \in Entries, d \in Entries :
          heap = [StartHeap(ZeroProjector(1)) EXCEPT !["arg"] = <<<<a, b>>, <<c, d>>>>]
    /\ density = "o1"
    /\ initial_density = "o1"
    /\ configured = ZeroProjector(1)
    /\ result = Ok("__init__", <<>>, NoInfo)
    /\ calls = 0
    /\ other = <<>>
    /\ qc = <<>>

NextValid ==
    \/ D_set_initial_state("arg")
    \/ D_reset

SpecValid == InitValid /\ [][NextValid]_vars

Spec == Init /\ [][Next]_vars

---------------------------------------------------------------------------
(* A ReferenceWavefunctionSimulator and a ReferenceDensitySimulator built   *)
(* with the same n_qubits and random sources that give the same values,     *)
(* driven by the same calls: wf and result belong to the first, heap,       *)
(* density, initial_density and other.result to the second.                  *)

InitPair ==
    /\ kind = "pair"
    /\ n_qubits \in QubitCounts
    /\ rs = TRUE
    /\ wf = ZeroState(n_qubits)
    /\ heap = StartHeap(ZeroProjector(n_qubits))
    /\ density = "o1"
    /\ initial_density = density
    /\ configured = ZeroProjector(n_qubits)
    /\ result = Ok("__init__", <<>>, NoInfo)
    /\ calls = 0
    /\ other = [result |-> Ok("__init__", <<>>, NoInfo)]
    /\ qc = <<>>

PairStep(w_out, d_out) ==
    /\ wf' = w_out.wf
    /\ result' = w_out.result
    /\ heap' = d_out.heap
    /\ density' = d_out.density
    /\ initial_density' = d_out.initial_density
    /\ other' = [result |-> d_out.result]
    /\ UNCHANGED <<kind, n_qubits, rs, configured, calls, qc>>

P_do_gate(gate) ==
    /\ kind = "pair"
    /\ PairStep(Wavefunction_do_gate(wf, n_qubits, gate), Density_do_gate(Self, gate))

P_do_gate_matrix(matrix, qubits) ==
    /\ kind = "pair"
    /\ PairStep(Wavefunction_do_gate_matrix(wf, n_qubits, matrix, qubits),
                Density_do_gate_matrix(Self, matrix, qubits))

P_do_measurement(qubit, u) ==
    /\ kind = "pair"
    /\ PairStep(Wavefunction_do_measurement(wf, n_qubits, rs, qubit, u),
                Density_do_measurement(Self, qubit, u))

P_reset ==
    /\ kind = "pair"
    /\ PairStep(Wavefunction_reset(wf), Density_reset(Self))

NextPair ==
    \/ \E gate \in Gates(n_qubits) : P_do_gate(gate)
    \/ \E mq \in GateMatrices(n_qubits) : P_do_gate_matrix(mq[1], mq[2])
    \/ \E q \in Qubits(n_qubits), u \in Draws : P_do_measurement(q, u)
    \/ P_reset

SpecPair == InitPair /\ [][NextPair]_vars

---------------------------------------------------------------------------
(* do_gate_matrix with matrices of the caller's making, unitary or not, on  *)
(* both simulators: at most MaxCalls calls from construction.                *)

\* the phase gate diag(1, i), whose inverse is not itself
SMat == <<<<COne, CZero>>, <<CZero, CI>>>>

\* controlled phase diag(1, 1, 1, i)
CSMat ==
    << <<COne, CZero, CZero, CZero>>, <<CZero, COne, CZero, CZero>>,
       <<CZero, CZero, COne, CZero>>, <<CZero, CZero, CZero, CI>> >>

\* not unitary: a shear, twice the identity, and CNOT + I
ShearMat == <<<<COne, COne>>, <<CZero, COne>>>>

TwiceMat == <<<<Q(2, 1), CZero>>, <<CZero, Q(2, 1)>>>>

CNOTPlusEye == MatAdd(CNOTMat, Eye(4))

\* the <<matrix, qubits>> handed to do_gate_matrix; P0 is not unitary either
MatrixCalls(n) ==
    {<<SMat, <<0>>>>, <<HMat, <<n - 1>>>>, <<YMat, <<0>>>>,
     <<P0, <<0>>>>, <<ShearMat, <<n - 1>>>>, <<TwiceMat, <<0>>>>}
    \cup (IF n = 2
          THEN {<<CNOTMat, <<0, 1>>>>, <<CSMat, <<1, 0>>>>, <<CNOTPlusEye, <<1, 0>>>>}
          ELSE {})

InitMatrix == Init /\ rs = FALSE

W_do_gate_matrix_counted(matrix, qubits) ==
    /\ kind = "wf"
    /\ calls < MaxCalls
    /\ WfUpdate(Wavefunction_do_gate_matrix(wf, n_qubits, matrix, qubits))
    /\ calls' = calls + 1

D_do_gate_matrix_counted(matrix, qubits) ==
    /\ kind = "density"
    /\ calls < MaxCalls
    /\ DmUpdate(Density_do_gate_matrix(Self, matrix, qubits))
    /\ calls' = calls + 1
    /\ UNCHANGED configured

NextMatrix ==
    \/ \E mq \in MatrixCalls(n_qubits) : W_do_gate_matrix_counted(mq[1], mq[2])
    \/ \E mq \in MatrixCalls(n_qubits) : D_do_gate_matrix_counted(mq[1], mq[2])

SpecMatrix == InitMatrix /\ [][NextMatrix]_vars

---------------------------------------------------------------------------
(* Two density simulators of one process.  The methods of the first are     *)
(* called; other holds the names self.density and self.initial_density of   *)
(* the second, which was constructed and then possibly given one of the      *)
(* caller's matrices by set_initial_state, and possibly reset to it.         *)

\* the array the second simulator made in __init__
OtherRef == "p1"

\* the fields of a simulator of n qubits right after __init__
Fresh(n) ==
    [n_qubits |-> n, rs |-> TRUE, heap |-> StartHeap(ZeroProjector(n)),
     density |-> "o1", initial_density |-> "o1"]

\* the caller's matrices that set_initial_state of such a simulator accepts
Accepted(n) ==
    {m \in CallerRefs : Density_set_initial_state(Fresh(n), m).result.exc = ""}

\* the fields of the second simulator after __init__, after
\* set_initial_state(m), and after set_initial_state(m) and reset()
OtherFields(n) ==
    {[density |-> OtherRef, initial_density |-> OtherRef]}
    \cup {[density |-> OtherRef, initial_density |-> m] : m \in Accepted(n)}
    \cup {[density |-> m, initial_density |-> m] : m \in Accepted(n)}

InitTwo ==
    /\ kind = "density"
    /\ n_qubits = 1
    /\ rs = TRUE
    /\ wf = <<>>
    /\ heap = StartHeap(ZeroProjector(n_qubits)) @@ (OtherRef :> ZeroProjector(n_qubits))
    /\ density = "o1"
    /\ initial_density = "o1"
    /\ configured = ZeroProjector(n_qubits)
    /\ result = Ok("__init__", <<>>, NoInfo)
    /\ calls = 0
    /\ other \in OtherFields(n_qubits)
    /\ qc = <<>>

NextTwo ==
    \/ \E m \in CallerRefs \cup {NoRef} : D_set_initial_state(m)
    \/ \E k \in 0..MaxSamples : D_sample_bitstrings(k)
    \/ \E gate \in Gates(n_qubits) : D_do_gate(gate)
    \/ \E mq \in GateMatrices(n_qubits) : D_do_gate_matrix(mq[1], mq[2])
    \/ \E q \in Qubits(n_qubits), u \in Draws : D_do_measurement(q, u)
    \/ \E o \in Observables(n_qubits) : D_expectation(o)
    \/ D_reset
    \/ \E c \in NoiseCalls(n_qubits) : D_do_post_gate_noise(c[1], c[2], c[3])

SpecTwo == InitTwo /\ [][NextTwo]_vars

---------------------------------------------------------------------------
(* _quantum_computer.py: _parse_name and _canonicalize_name.  A name is a   *)
(* string, modelled as a sequence of tokens; no token is the start of       *)
(* another, so two names are the same string iff they are the same          *)
(* sequence.  None, True and False are "None", "True" and "False".          *)

Dash == "-"

NameTokens == {Dash, "qvm", "pyqvm", "noisy", "9q"}

Names == UNION {[1..k -> NameTokens] : k \in 0..MaxNameLen}

Flags == {"None", "True", "False"}

\* name.split('-'): the parts between the dashes, at least one
RECURSIVE split(_)
split(name) ==
    IF name = <<>> THEN << <<>> >>
    ELSE LET rest == split(Tail(name))
         IN  IF Head(name) = Dash THEN << <<>> >> \o rest
             ELSE << <<Head(name)>> \o rest[1] >> \o Tail(rest)

\* '-'.join(parts)
RECURSIVE join(_)
join(parts) ==
    IF parts = <<>> THEN <<>>
    ELSE IF Len(parts) = 1 THEN parts[1]
    ELSE parts[1] \o <<Dash>> \o join(Tail(parts))

\* the messages, without the backquotes around the flag
MsgNoisyAsQvm ==
    "The provided qc name indicates you are getting a noisy QVM, but you have specified as_qvm=False"

MsgNoisyNoisy ==
    "The provided qc name indicates you are getting a noisy QVM, but you have specified noisy=False"

MsgAsQvm ==
    "The provided qc name indicates you are getting a QVM, but you have specified as_qvm=False"

\* gives <<prefix, qvm_type, noisy>>
_parse_name(name, as_qvm, noisy) ==
    LET parts == split(name)
        k == Len(parts)
        args == [name |-> name, as_qvm |-> as_qvm, noisy |-> noisy]
    IN  IF k >= 2 /\ parts[k - 1] = <<"noisy">> /\ parts[k] \in {<<"qvm">>, <<"pyqvm">>}
        THEN IF as_qvm = "False"
             THEN Raise("_parse_name", "ValueError", MsgNoisyAsQvm, args)
             ELSE IF noisy = "False"
             THEN Raise("_parse_name", "ValueError", MsgNoisyNoisy, args)
             ELSE Ok("_parse_name", <<join(SubSeq(parts, 1, k - 2)), parts[k][1], "True">>, args)
        ELSE IF k >= 1 /\ parts[k] \in {<<"qvm">>, <<"pyqvm">>}
        THEN IF as_qvm = "False"
             THEN Raise("_parse_name", "ValueError", MsgAsQvm, args)
             ELSE Ok("_parse_name",
                     <<join(SubSeq(parts, 1, k - 1)), parts[k][1],
                       IF noisy = "None" THEN "False" ELSE noisy>>, args)
        ELSE Ok("_parse_name",
                <<name, IF as_qvm = "True" THEN "qvm" ELSE "None",
                  IF noisy = "None" THEN "False" ELSE noisy>>, args)

\* gives <<name>>
_canonicalize_name(prefix, qvm_type, noisy) ==
    LET noise_suffix == IF noisy = "True" THEN <<Dash, "noisy">> ELSE <<>>
        args == [prefix |-> prefix, qvm_type |-> qvm_type, noisy |-> noisy]
    IN  IF qvm_type \notin {"None", "qvm", "pyqvm"}
        THEN Raise("_canonicalize_name", "ValueError", "Unknown qvm_type", args)
        ELSE Ok("_canonicalize_name",
                <<prefix \o noise_suffix
                    \o (IF qvm_type = "None" THEN <<>> ELSE <<Dash, qvm_type>>)>>, args)

\* a caller with a name and two flags, before it calls anything
InitName ==
    /\ kind = "qc"
    /\ n_qubits = 0
    /\ rs = FALSE
    /\ wf = <<>>
    /\ heap = <<>>
    /\ density = NoRef
    /\ initial_density = NoRef
    /\ configured = <<>>
    /\ result = Ok("import", <<>>, NoInfo)
    /\ calls = 0
    /\ other = <<>>
    /\ qc \in [name : Names, as_qvm : Flags, noisy : Flags]

QcStep(res) ==
    /\ result' = res
    /\ UNCHANGED <<kind, n_qubits, rs, wf, heap, density, initial_density, configured,
                    calls, other, qc>>

\* get_qc, line 946
Q_parse_name ==
    /\ kind = "qc"
    /\ result.op = "import"
    /\ QcStep(_parse_name(qc.name, qc.as_qvm, qc.noisy))

\* get_qc, line 948
Q_canonicalize_name ==
    /\ kind = "qc"
    /\ result.op = "_parse_name" /\ result.exc = ""
    /\ QcStep(_canonicalize_name(result.ret[1], result.ret[2], result.ret[3]))

\* the canonical name handed to _parse_name with no flags
Q_parse_canonical ==
    /\ kind = "qc"
    /\ result.op = "_canonicalize_name" /\ result.exc = ""
    /\ QcStep(_parse_name(result.ret[1], "None", "None"))

NextName ==
    \/ Q_parse_name
    \/ Q_canonicalize_name
    \/ Q_parse_canonical

SpecName == InitName /\ [][NextName]_vars

---------------------------------------------------------------------------
(* _quantum_computer.py: the context manager local_qvm.  qc holds           *)
(*   pc        "caller" before the with statement, "body" inside it,        *)
(*             "left" once control has left local_qvm                       *)
(*   installed the executables subprocess.Popen can find                    *)
(*   procs     the state of each process: "none", "running" or "exited"     *)
(*   sent      the processes terminate() was called on                      *)
(*   exc       the exception that left local_qvm, "" for none               *)

Executables == {"qvm", "quilc"}

\* the process of an executable that runs before local_qvm is entered
Existing(exe) == <<"existing", exe>>

\* the process subprocess.Popen starts for an executable
Child(exe) == <<"child", exe>>

Processes == {Existing(exe) : exe \in Executables} \cup {Child(exe) : exe \in Executables}

\* subprocess.Popen([exe, ...]) finds the executable and starts a process
Popen(procs, exe) == [procs EXCEPT ![Child(exe)] = "running"]

\* Popen.terminate(): the signal goes to the process of the handle, if it
\* still runs
terminate(q, proc) ==
    [q EXCEPT !.sent = @ \cup {proc},
              !.procs[proc] = IF @ = "running" THEN "exited" ELSE @]

\* local_qvm up to its yield: lines 1018-1028
local_qvm_enter(q) ==
    IF "qvm" \notin q.installed
    THEN [q EXCEPT !.pc = "left", !.exc = "FileNotFoundError"]
    ELSE LET started == [q EXCEPT !.procs = Popen(q.procs, "qvm")]
         IN  IF "quilc" \notin q.installed
             THEN [started EXCEPT !.pc = "left", !.exc = "FileNotFoundError"]
             ELSE [started EXCEPT !.procs = Popen(started.procs, "quilc"), !.pc = "body"]

\* an exit that ends every running qvm and quilc, whoever started it
local_qvm_exit_by_name(q, body_exc) ==
    [q EXCEPT !.sent = @ \cup {p \in Processes : q.procs[p] = "running"}
                         \cup {Child("qvm"), Child("quilc")},
              !.procs = [p \in Processes |->
                            IF q.procs[p] = "running" THEN "exited" ELSE q.procs[p]],
              !.pc = "left", !.exc = body_exc]

\* local_qvm from its yield on, when the with-body has ended with the
\* exception body_exc ("" for none): the finally block, lines 1030-1033
local_qvm_exit(q, body_exc) ==
    [terminate(terminate(q, Child("qvm")), Child("quilc"))
        EXCEPT !.pc = "left", !.exc = body_exc]

InitLocal ==
    /\ kind = "qc"
    /\ n_qubits = 0
    /\ rs = FALSE
    /\ wf = <<>>
    /\ heap = <<>>
    /\ density = NoRef
    /\ initial_density = NoRef
    /\ configured = <<>>
    /\ result = Ok("import", <<>>, NoInfo)
    /\ calls = 0
    /\ other = <<>>
    /\ \E installed \in SUBSET Executables, running \in SUBSET Executables :
          qc = [pc |-> "caller", installed |-> installed,
                procs |-> [p \in Processes |->
                              IF p[1] = "existing" /\ p[2] \in running
                              THEN "running" ELSE "none"],
                sent |-> {}, exc |-> ""]

LocalStep(q, op) ==
    /\ qc' = q
    /\ result' = IF q.exc = "" THEN Ok(op, <<>>, NoInfo) ELSE Raise(op, q.exc, "", NoInfo)
    /\ UNCHANGED <<kind, n_qubits, rs, wf, heap, density, initial_density, configured,
                    calls, other>>

\* with local_qvm(): ...
L_enter ==
    /\ qc.pc = "caller"
    /\ LocalStep(local_qvm_enter(qc), "local_qvm.__enter__")

\* the with-body ends, normally or with an exception
L_exit(body_exc) ==
    /\ qc.pc = "body"
    /\ LocalStep(local_qvm_exit(qc, body_exc), "local_qvm.__exit__")

\* a process ends by itself, as a second qvm does that finds its port taken
P_exits(proc) ==
    /\ qc.procs[proc] = "running"
    /\ qc' = [qc EXCEPT !.procs[proc] = "exited"]
    /\ UNCHANGED <<kind, n_qubits, rs, wf, heap, density, initial_density, configured,
                    result, calls, other>>

NextLocal ==
    \/ L_enter
    \/ \E body_exc \in {"", "Exception"} : L_exit(body_exc)
    \/ \E proc \in Processes : P_exits(proc)

SpecLocal == InitLocal /\ [][NextLocal]_vars

---------------------------------------------------------------------------
(* _quantum_computer.py: _get_flipped_protoquil_program.  A Program is the  *)
(* sequence of its instructions; an instruction is [op, qubit, target],     *)
(* target being the classical register of a MEASURE.  qc holds the caller's *)
(* Program object (program), what it was at the call (given) and the        *)
(* Program the function gave back (flipped).                                 *)

Measurement(qubit, classical_reg) == [op |-> "MEASURE", qubit |-> qubit, target |-> classical_reg]

\* RX(pi, qubit)
RX_pi(qubit) == [op |-> "RX(pi)", qubit |-> qubit, target |-> -1]

Pragma(command) == [op |-> "PRAGMA " \o command, qubit |-> -1, target |-> -1]

\* a gate of the caller's program
H_gate(qubit) == [op |-> "H", qubit |-> qubit, target |-> -1]

ProgramQubits == {0, 1}

Instructions ==
    {H_gate(0)} \cup {Measurement(q, r) : q \in ProgramQubits, r \in ProgramQubits}

Programs == UNION {[1..k -> Instructions] : k \in 0..MaxProgLen}

\* the Measurement instructions the while loop pops off the end, in the
\* order it appends them to to_measure: last first
RECURSIVE popped_measurements(_)
popped_measurements(instructions) ==
    IF instructions # <<>> /\ instructions[Len(instructions)].op = "MEASURE"
    THEN <<instructions[Len(instructions)]>>
            \o popped_measurements(SubSeq(instructions, 1, Len(instructions) - 1))
    ELSE <<>>

\* to_measure[::-1]
reversed(seq) == [k \in 1..Len(seq) |-> seq[Len(seq) + 1 - k]]

\* gives the caller's Program after the call and the Program returned
_get_flipped_protoquil_program(program) ==
    LET copy == program
        to_measure == popped_measurements(copy)
        kept == SubSeq(copy, 1, Len(copy) - Len(to_measure))
    IN  [program |-> program,
         ret |-> kept \o <<Pragma("PRESERVE_BLOCK")>>
                    \o [k \in 1..Len(to_measure) |-> RX_pi(reversed(to_measure)[k].qubit)]
                    \o <<Pragma("END_PRESERVE_BLOCK")>>
                    \o [k \in 1..Len(to_measure) |->
                           Measurement(reversed(to_measure)[k].qubit,
                                       reversed(to_measure)[k].target)]]

InitFlip ==
    /\ kind = "qc"
    /\ n_qubits = 0
    /\ rs = FALSE
    /\ wf = <<>>
    /\ heap = <<>>
    /\ density = NoRef
    /\ initial_density = NoRef
    /\ configured = <<>>
    /\ result = Ok("import", <<>>, NoInfo)
    /\ calls = 0
    /\ other = <<>>
    /\ \E program \in Programs : qc = [program |-> program, given |-> program, flipped |-> <<>>]

\* run_symmetrized_readout, line 480
F_get_flipped_protoquil_program ==
    /\ kind = "qc"
    /\ result.op = "import"
    /\ LET out == _get_flipped_protoquil_program(qc.program)
       IN  /\ qc' = [qc EXCEPT !.program = out.program, !.flipped = out.ret]
           /\ result' = Ok("_get_flipped_protoquil_program", <<>>, NoInfo)
    /\ UNCHANGED <<kind, n_qubits, rs, wf, heap, density, initial_density, configured,
                    calls, other>>

NextFlip == F_get_flipped_protoquil_program

SpecFlip == InitFlip /\ [][NextFlip]_vars

---------------------------------------------------------------------------
(* Properties.                                                              *)

\* the current density has the side 2^n_qubits of the engine (always so for
\* the wavefunction simulator)
StateFitsEngine == kind = "wf" \/ Rows(heap[density]) = Pow2(n_qubits)

\* the probability of reading 0 on qubit q: the weight of the basis states
\* whose bit q is 0
WfProbZero(w, q) ==
    CSum([k \in 1..Len(w) |-> IF Bit(k - 1, q) = 0 THEN CMul(CConj(w[k]), w[k]) ELSE CZero],
         Len(w))

DmProbZero(rho, q) ==
    CSum([k \in 1..Rows(rho) |-> IF Bit(k - 1, q) = 0 THEN rho[k][k] ELSE CZero], Rows(rho))

\* the state projected on "qubit q reads b" and normalised, p the probability
\* of that outcome
WfProjected(w, q, b, p) ==
    LET inv == CInv(CSqrt(p))
    IN  V([k \in 1..Len(w) |-> IF Bit(k - 1, q) = b THEN CMul(w[k], inv) ELSE CZero])

DmProjected(rho, q, b, p) ==
    LET inv == CInv(p)
    IN  V([i \in 1..Rows(rho) |-> V([j \in 1..Cols(rho) |->
            IF Bit(i - 1, q) = b /\ Bit(j - 1, q) = b THEN CMul(rho[i][j], inv) ELSE CZero])])

\* the probability that qubit q of the current state reads 0
ProbZero(q) == IF kind = "wf" THEN WfProbZero(wf, q) ELSE DmProbZero(heap[density], q)

\* C1: a set_initial_state call that raises (matrix not square, of the wrong
\* size, not Hermitian, not of trace one, or with a negative eigenvalue)
\* leaves self.density and self.initial_density naming the arrays they named,
\* with the contents they had, so that a later reset() restores the initial
\* state configured before the call.
C1_RejectedSetInitialStateKeepsState ==
    [][(result'.op = "set_initial_state" /\ result'.exc # "")
          => /\ density' = density
             /\ initial_density' = initial_density
             /\ heap'[density'] = heap[density]
             /\ heap'[initial_density'] = heap[initial_density]
             /\ configured' = configured]_vars

\* a non-Hermitian matrix was rejected while a caller's matrix was the
\* configured initial state and the density had moved away from it
C1_Witness ==
    /\ result.op = "set_initial_state"
    /\ result.msg = "The state matrix is not Hermitian."
    /\ initial_density = "plus"
    /\ density \in OwnRefs
    /\ heap[density] # heap[initial_density]

\* C2: set_initial_state raises unless the matrix is square with exactly
\* 2^n_qubits rows, so the recorded initial state always has side 2^n_qubits.
C2_InitialStateHasEngineDimension ==
    kind = "density"
       => /\ Rows(heap[initial_density]) = Pow2(n_qubits)
          /\ Cols(heap[initial_density]) = Pow2(n_qubits)

\* C3: a set_initial_state call that returns (with a matrix or with None)
\* records the new initial state and changes nothing else: self.density names
\* the same array with the same contents before and after the call.
C3_SetInitialStateKeepsDensity ==
    [][(result'.op = "set_initial_state" /\ result'.exc = "")
          => /\ density' = density
             /\ heap'[density'] = heap[density]
             /\ heap'[initial_density'] = configured'
             /\ UNCHANGED <<kind, n_qubits, rs, wf>>]_vars

\* a caller's matrix was accepted as the initial state while the density is a
\* different matrix
C3_Witness ==
    /\ result.op = "set_initial_state"
    /\ result.exc = ""
    /\ initial_density = "ypos"
    /\ heap[density] # heap[initial_density]
    /\ heap[density] # ZeroProjector(n_qubits)

\* right after reset() the state is the initial state
C4_ResetState ==
    result.op = "reset"
       => /\ result.exc = ""
          /\ kind = "wf" => wf = ZeroState(n_qubits)
          /\ kind = "density" => heap[density] = configured

\* only set_initial_state changes what reset() restores
C4_InitialKept ==
    (kind = "density" /\ result'.op # "set_initial_state")
       => heap'[initial_density'] = heap[initial_density]

\* C4: reset() leaves the wavefunction simulator in the all-zeros basis state
\* and the density simulator in the initial state of the last
\* set_initial_state call that returned (the all-zeros projector when there
\* was none, or when the last one was given None); gates, noise and
\* measurements, before or after a reset, never change what the next reset
\* restores.
C4_ResetRestoresInitialState == [](C4_ResetState) /\ [][C4_InitialKept]_vars

\* reset() has put a caller's matrix back as the density
C4_Witness ==
    /\ result.op = "reset"
    /\ kind = "density"
    /\ initial_density = "plus"
    /\ density = "plus"
    /\ heap[density] = CallerMatrices.plus

C5_Stochastic == {"do_measurement", "sample_bitstrings"}

C5_Rejections ==
    {MsgNotSquare, MsgQubits, "The state matrix is not Hermitian.",
     "The state matrix is not trace one.",
     "The state matrix has negative Eigenvalues of the order -1e-08."}

\* C5: on a simulator without a random source, do_measurement and
\* sample_bitstrings raise the missing-source error and change no state; the
\* other operations never raise it: gates return on every state of the
\* engine's dimension, reset always, the wavefunction expectation always, and
\* set_initial_state unless it rejects the matrix itself.
C5_NoRandomSource ==
    [][~rs =>
         /\ result'.op \in C5_Stochastic
               => /\ result'.exc = "ValueError"
                  /\ result'.msg = MsgNoRandomState
                  /\ UNCHANGED <<wf, heap, density, initial_density>>
         /\ result'.op \notin C5_Stochastic => result'.msg # MsgNoRandomState
         /\ (result'.op \in {"do_gate", "do_gate_matrix"} /\ StateFitsEngine)
               => result'.exc = ""
         /\ result'.op = "reset" => result'.exc = ""
         /\ (result'.op = "expectation" /\ kind = "wf") => result'.exc = ""
         /\ result'.op = "set_initial_state"
               => (result'.exc = "" \/ result'.msg \in C5_Rejections)]_vars

\* a measurement was refused for want of a random source, on a state that
\* gates had moved away from the initial one
C5_Witness ==
    /\ ~rs
    /\ result.op = "do_measurement"
    /\ result.msg = MsgNoRandomState
    /\ kind = "wf"
    /\ wf # ZeroState(n_qubits)

\* C6: do_measurement(qubit) on a simulator with a random source computes
\* prob_zero, the probability that the qubit reads 0, draws u, returns 0 when
\* u < prob_zero and 1 otherwise, and leaves the state projected on the
\* returned outcome and divided by that outcome's probability (by its square
\* root, for a wavefunction).
C6_MeasurementProjects ==
    [][(result'.op = "do_measurement" /\ result'.exc = "")
          => \A q \in {result'.info.qubit} : \A pz \in {ProbZero(q)} :
             \A b \in {IF CLess(result'.info.u, pz) THEN 0 ELSE 1} :
             \A p \in {IF b = 0 THEN pz ELSE CSub(COne, pz)} :
                 /\ rs
                 /\ result'.info.prob_zero = pz
                 /\ result'.ret = <<b>>
                 /\ kind = "wf" => wf' = WfProjected(wf, q, b, p)
                 /\ kind = "density"
                       => heap'[density'] = DmProjected(heap[density], q, b, p)]_vars

\* a qubit that read 0 with probability 1/2 was measured with the draw 1/2,
\* which is not below prob_zero, and read 1
C6_Witness ==
    /\ result.op = "do_measurement"
    /\ result.exc = ""
    /\ result.info.prob_zero = Q(1, 2)
    /\ result.info.u = Q(1, 2)
    /\ result.ret = <<1>>
    /\ kind = "density"
    /\ n_qubits = 2

\* C7: measuring a qubit whose value is definite (prob_zero is 0 or 1)
\* returns that value whatever the draw, and leaves the state as it was; on
\* the one-qubit wavefunction that X makes from the fresh state it returns 1.
C7_DefiniteOutcome ==
    [][(result'.op = "do_measurement" /\ result'.exc = "")
          => \A pz \in {ProbZero(result'.info.qubit)} :
             LET kept == /\ wf' = wf
                         /\ kind = "density" => heap'[density'] = heap[density]
             IN  /\ pz = CZero => (result'.ret = <<1>> /\ kept)
                 /\ pz = COne => (result'.ret = <<0>> /\ kept)
                 /\ (kind = "wf" /\ n_qubits = 1
                      /\ wf = Wavefunction_do_gate(ZeroState(1), 1,
                                                   [name |-> "X", qubits |-> <<0>>]).wf)
                       => result'.ret = <<1>>]_vars

\* the one-qubit state X|0> was measured with the smallest draw, 0, and read 1
C7_Witness ==
    /\ result.op = "do_measurement"
    /\ result.exc = ""
    /\ result.info.prob_zero = CZero
    /\ result.info.u = CZero
    /\ result.ret = <<1>>
    /\ kind = "wf"
    /\ n_qubits = 1
    /\ wf = <<CZero, COne>>

\* C8: sample_bitstrings(n_samples) never changes the stored state, whether it
\* returns or raises; when it returns, it returns exactly n_samples rows of
\* n_qubits entries, each 0 or 1, and with a random source it returns on every
\* state of the engine's dimension.
C8_SamplingKeepsState ==
    [][result'.op = "sample_bitstrings"
          => /\ UNCHANGED <<wf, heap, density, initial_density>>
             /\ result'.exc = ""
                   => /\ Len(result'.ret) = result'.info.n_samples
                      /\ \A k \in 1..Len(result'.ret) :
                            /\ Len(result'.ret[k]) = n_qubits
                            /\ \A j \in 1..n_qubits : result'.ret[k][j] \in {0, 1}
             /\ (rs /\ StateFitsEngine) => result'.exc = ""]_vars

\* MaxSamples rows were sampled from a mixed density, which is still mixed
C8_Witness ==
    /\ result.op = "sample_bitstrings"
    /\ result.exc = ""
    /\ Len(result.ret) = MaxSamples
    /\ kind = "density"
    /\ heap[density][1][1] = Q(1, 2)

\* C9: in every row that sample_bitstrings returns, column q (counted from 0)
\* is bit q of the index of the sampled basis state; on the two-qubit
\* wavefunction that X on qubit 0 makes from the fresh state, every row is
\* <<1, 0>>.
C9_RowsAreIndexBits ==
    (result.op = "sample_bitstrings" /\ result.exc = "")
       => /\ \A k \in 1..Len(result.ret) : \A q \in Qubits(n_qubits) :
                result.ret[k][q + 1] = Bit(result.info.inds[k], q)
          /\ (kind = "wf" /\ n_qubits = 2
               /\ wf = Wavefunction_do_gate(ZeroState(2), 2,
                                            [name |-> "X", qubits |-> <<0>>]).wf)
                => \A k \in 1..Len(result.ret) : result.ret[k] = <<1, 0>>

\* a row was sampled from the two-qubit state with qubit 0 flipped
C9_Witness ==
    /\ result.op = "sample_bitstrings"
    /\ result.exc = ""
    /\ kind = "wf"
    /\ n_qubits = 2
    /\ result.info.inds = <<1>>
    /\ result.ret = <<<<1, 0>>>>

\* |noise_prob - 0| <= 1e-08, for noise_prob = <<num, den>> not negative
C10_CloseToZero(noise_prob) == noise_prob[1] * 100000000 <= noise_prob[2]

\* C10: do_post_gate_noise on the density simulator with a noise_prob that is
\* 0 or within the tolerance of 0 does not raise, emits a warning, and leaves
\* the density as it was.
C10_ZeroNoiseSkipped ==
    [][(kind = "density" /\ result'.op = "do_post_gate_noise"
         /\ C10_CloseToZero(result'.info.noise_prob))
          => /\ result'.exc = ""
             /\ result'.warned
             /\ UNCHANGED <<heap, density, initial_density>>]_vars

\* noise of probability 1e-09 was skipped with a warning on a density that
\* gates had moved away from the initial state
C10_Witness ==
    /\ kind = "density"
    /\ result.op = "do_post_gate_noise"
    /\ result.warned
    /\ result.info.noise_prob = <<1, 1000000000>>
    /\ heap[density] # heap[initial_density]

\* the density after do_post_gate_noise(noise_type, noise_prob, <<q>>) called
\* for each q of qubits in turn, on a simulator whose fields are self
RECURSIVE OneQubitAtATime(_, _, _, _)
OneQubitAtATime(self, noise_type, noise_prob, qubits) ==
    IF qubits = <<>> THEN self.heap[self.density]
    ELSE LET out == Density_do_post_gate_noise(self, noise_type, noise_prob,
                                               <<Head(qubits)>>)
         IN  OneQubitAtATime([self EXCEPT !.heap = out.heap, !.density = out.density],
                             noise_type, noise_prob, Tail(qubits))

\* C11: do_post_gate_noise(noise_type, noise_prob, qubits) with a noise_prob
\* that is not close to 0 leaves exactly the density that the calls
\* do_post_gate_noise(noise_type, noise_prob, <<q>>), one for each listed
\* qubit in list order, leave: each call works on the result of the one
\* before, and a qubit listed twice gets the channel twice.
C11_NoiseIsSequential ==
    [][(kind = "density" /\ result'.op = "do_post_gate_noise"
         /\ ~result'.warned /\ result'.exc = "")
          => \A c \in {result'.info} :
                heap'[density'] = OneQubitAtATime(Self, c.noise_type, c.noise_prob,
                                                  c.qubits)]_vars

\* phase-flip noise of probability 1/2 on the qubits <<1, 0>> has acted on a
\* two-qubit density and left it mixed
C11_Witness ==
    /\ kind = "density"
    /\ n_qubits = 2
    /\ result.op = "do_post_gate_noise"
    /\ result.exc = ""
    /\ result.info.noise_prob = <<1, 2>>
    /\ result.info.qubits = <<1, 0>>
    /\ heap[density][1][1] = Q(1, 2)
    /\ heap[density][1][2] = CZero

\* C12: do_post_gate_noise on the wavefunction simulator raises for every
\* noise type, noise_prob (0 included) and qubit list, and expectation on the
\* density simulator raises for every operator; both leave the stored state
\* as it was and take no value from the random source.
C12_UnsupportedAlwaysFails ==
    [][/\ (kind = "wf" /\ result'.op = "do_post_gate_noise")
             => /\ result'.exc # ""
                /\ ~result'.warned
                /\ result'.draws = 0
                /\ UNCHANGED <<wf, rs>>
       /\ (kind = "density" /\ result'.op = "expectation")
             => /\ result'.exc # ""
                /\ result'.draws = 0
                /\ UNCHANGED <<heap, density, initial_density, rs>>]_vars

\* noise of probability 0 was refused on a wavefunction that gates had moved
\* away from the fresh state
C12_Witness ==
    /\ kind = "wf"
    /\ result.op = "do_post_gate_noise"
    /\ result.exc = "NotImplementedError"
    /\ result.info.noise_prob = <<0, 1>>
    /\ wf # ZeroState(n_qubits)

\* C13: what do_post_gate_noise raises on the wavefunction simulator is of
\* another kind than what expectation raises on the density simulator.
C13_ErrorKindsDiffer ==
    \A c \in NoiseCalls(n_qubits), o \in Observables(n_qubits) :
        Wavefunction_do_post_gate_noise(ZeroState(n_qubits), c[1], c[2], c[3]).result.exc
           # Density_expectation(Self, o).result.exc

\* a 2x2 matrix equal to its conjugate transpose
C14_Hermitian(m) ==
    /\ m[1][1] = CConj(m[1][1])
    /\ m[2][2] = CConj(m[2][2])
    /\ m[1][2] = CConj(m[2][1])

C14_TraceOne(m) == CAdd(m[1][1], m[2][2]) = COne

\* a Hermitian 2x2 matrix has no negative eigenvalue iff neither its trace
\* nor its determinant is negative
C14_NoNegativeEigenvalue(m) ==
    /\ ~CLess(CAdd(m[1][1], m[2][2]), CZero)
    /\ ~CLess(CSub(CMul(m[1][1], m[2][2]), CMul(m[1][2], m[2][1])), CZero)

\* C14: the validity check tests Hermitian, then trace one, then the
\* eigenvalues, and reports the first condition that fails: a matrix that is
\* not Hermitian is rejected as not Hermitian whatever its trace and
\* eigenvalues, a Hermitian matrix of another trace than one as not trace one
\* whatever its eigenvalues, and a matrix is accepted only if all three hold.
C14_ValidityOrder ==
    [][result'.op = "set_initial_state"
          => \A m \in {heap["arg"]} :
                /\ ~C14_Hermitian(m) => result'.msg = "The state matrix is not Hermitian."
                /\ (C14_Hermitian(m) /\ ~C14_TraceOne(m))
                      => result'.msg = "The state matrix is not trace one."
                /\ (C14_Hermitian(m) /\ C14_TraceOne(m) /\ ~C14_NoNegativeEigenvalue(m))
                      => result'.msg
                            = "The state matrix has negative Eigenvalues of the order -1e-08."
                /\ result'.exc = ""
                      <=> (C14_Hermitian(m) /\ C14_TraceOne(m)
                             /\ C14_NoNegativeEigenvalue(m))]_vars

\* a matrix that is not Hermitian, not of trace one and of negative
\* determinant was rejected as not Hermitian
C14_Witness ==
    /\ result.op = "set_initial_state"
    /\ result.msg = "The state matrix is not Hermitian."
    /\ ~C14_TraceOne(heap["arg"])
    /\ ~C14_NoNegativeEigenvalue(heap["arg"])

\* C15: in the wavefunction simulator, whose gates and gate matrices are all
\* unitary here, the squared norm of the state vector is 1 after every
\* operation, from construction and from every reset on.
C15_NormOne == kind = "wf" => VDot(wf, wf) = COne

\* the Bell state (|00> + |11>)/sqrt(2), made by H and CNOT
C15_Witness ==
    /\ kind = "wf" /\ n_qubits = 2
    /\ result.op = "do_gate"
    /\ wf = <<CHalfSqrt2, CZero, CZero, CHalfSqrt2>>

\* C16: in the density simulator the density matrix is a legal state after
\* every operation (unitary gates, trace-preserving noise, measurement,
\* reset, an accepted set_initial_state): it equals its conjugate transpose,
\* its trace is 1, no diagonal entry is negative and no eigenvalue is
\* negative.
C16_DensityLegal ==
    kind = "density"
       => \A rho \in {heap[density]} :
             /\ rho = Dagger(rho)
             /\ Trace(rho) = COne
             /\ \A k \in 1..Rows(rho) : ~CLess(rho[k][k], CZero)
             /\ non_neg_eigs(rho)

\* a mixed two-qubit state left by noise of probability 1/2
C16_Witness ==
    /\ kind = "density" /\ n_qubits = 2
    /\ result.op = "do_post_gate_noise" /\ result.exc = "" /\ ~result.warned
    /\ heap[density][1][1] = CHalf
    /\ heap[density] # ZeroProjector(2)

\* the state vector is the basis state of index k - 1, up to a phase
C20_BasisState(w, k) == w[k] # CZero /\ \A j \in 1..Len(w) : j # k => w[j] = CZero

\* C20: on the wavefunction simulator in a computational basis state, the
\* expectation of a single Z on qubit q is the term's coefficient when bit q
\* of the state is 0 and minus the coefficient when it is 1, and computing an
\* expectation leaves the state vector unchanged.
C20_ExpectationOfZ ==
    [][(kind = "wf" /\ result'.op = "expectation")
          => /\ wf' = wf
             /\ \A o \in {result'.info.operator} :
                   (Len(o) = 1 /\ Len(o[1].ops) = 1 /\ o[1].ops[1][2] = "Z")
                      => \A k \in 1..Len(wf) :
                            C20_BasisState(wf, k)
                               => result'.ret
                                     = <<IF ((k - 1) \div Pow2(o[1].ops[1][1])) % 2 = 0
                                         THEN o[1].coefficient
                                         ELSE CNeg(o[1].coefficient)>>]_vars

\* Z on qubit 1 with coefficient -1/2 in the basis state i|10> gives +1/2
C20_Witness ==
    /\ kind = "wf" /\ n_qubits = 2
    /\ result.op = "expectation"
    /\ result.info.operator = <<[ops |-> <<<<1, "Z">>>>, coefficient |-> Q(-1, 2)]>>
    /\ wf = <<CZero, CZero, CI, CZero>>
    /\ result.ret = <<Q(1, 2)>>

C17_Unitary(m) == MatMul(Dagger(m), m) = Eye(Rows(m))

\* C17: in the wavefunction simulator, whatever the state, after
\* do_gate_matrix with a unitary U on a qubit list, do_gate_matrix with the
\* inverse of U on the same qubits gives back the state vector as it was.
C17_InverseRestores ==
    [][(kind = "wf" /\ result'.op = "do_gate_matrix")
          => \A c \in {result'.info} :
                C17_Unitary(c.matrix)
                   => Wavefunction_do_gate_matrix(wf', n_qubits, Dagger(c.matrix), c.qubits).wf
                         = wf]_vars

\* the phase gate S made (|0> + i|1>)/sqrt(2) of (|0> + |1>)/sqrt(2)
C17_Witness ==
    /\ kind = "wf" /\ n_qubits = 1
    /\ result.op = "do_gate_matrix"
    /\ result.info.matrix = SMat
    /\ wf = <<CHalfSqrt2, CMul(CI, CHalfSqrt2)>>

C18_OtherUntouched ==
    [][/\ heap'[other.density] = heap[other.density]
       /\ heap'[other.initial_density] = heap[other.initial_density]
       /\ other' = other]_vars

\* both simulators were given the caller's matrix ypos and reset to it, and
\* a gate X on the first has turned its density into the transpose
C18_Witness ==
    /\ other = [density |-> "ypos", initial_density |-> "ypos"]
    /\ initial_density = "ypos"
    /\ result.op = "do_gate"
    /\ heap[density] = Transpose(CallerMatrices["ypos"])

\* the string name ends in the string suffix
C21_EndsIn(name, suffix) ==
    /\ Len(name) >= Len(suffix)
    /\ SubSeq(name, Len(name) - Len(suffix) + 1, Len(name)) = suffix

C21_EndsInQvm(name) ==
    C21_EndsIn(name, <<Dash, "qvm">>) \/ C21_EndsIn(name, <<Dash, "pyqvm">>)

C21_EndsInNoisyQvm(name) ==
    \/ C21_EndsIn(name, <<Dash, "noisy", Dash, "qvm">>)
    \/ C21_EndsIn(name, <<Dash, "noisy", Dash, "pyqvm">>)

\* a flag that is None or says what the name's suffix says
C21_Agrees(flag, has_suffix) ==
    flag = "None" \/ flag = (IF has_suffix THEN "True" ELSE "False")

\* C21: _parse_name raises ValueError exactly when the name ends in -qvm or
\* -pyqvm and as_qvm is False, or the name ends in -noisy-qvm or
\* -noisy-pyqvm and noisy is False; flags that are None or agree with the
\* name's suffix never raise and give the result of passing no flags.
C21_RaisesOnConflictOnly ==
    [][(result.op = "import" /\ result'.op = "_parse_name")
          => /\ result'.exc = "ValueError"
                   <=> \/ C21_EndsInQvm(qc.name) /\ qc.as_qvm = "False"
                       \/ C21_EndsInNoisyQvm(qc.name) /\ qc.noisy = "False"
             /\ (/\ C21_Agrees(qc.as_qvm, C21_EndsInQvm(qc.name))
                 /\ C21_Agrees(qc.noisy, C21_EndsInNoisyQvm(qc.name)))
                   => /\ result'.exc = ""
                      /\ result'.ret = _parse_name(qc.name, "None", "None").ret]_vars

\* C30: parsing the canonical name of a parse that did not raise, with no
\* flags, gives the <<prefix, qvm_type, noisy>> of that parse.
C30_CanonicalNameStable ==
    [][(result.op = "_canonicalize_name" /\ result'.op = "_parse_name")
          => result'.ret
                = <<result.info.prefix, result.info.qvm_type, result.info.noisy>>]_vars

\* C22: once control has left local_qvm, every process local_qvm started has
\* been sent terminate: after a with-body that ended normally, after one
\* that raised, and when starting quilc failed after qvm was started.
C22_StartedAreTerminated ==
    qc.pc = "left"
       => \A exe \in Executables :
             qc.procs[Child(exe)] # "none" => Child(exe) \in qc.sent

RECURSIVE C24_WithoutFlips(_)
C24_WithoutFlips(program) ==
    IF program = <<>> THEN <<>>
    ELSE IF Head(program).op \in {"RX(pi)", "PRAGMA PRESERVE_BLOCK", "PRAGMA END_PRESERVE_BLOCK"}
    THEN C24_WithoutFlips(Tail(program))
    ELSE <<Head(program)>> \o C24_WithoutFlips(Tail(program))

\* C24: the program _get_flipped_protoquil_program gives back has an RX(pi)
\* on the measured qubit before every MEASURE of the program it was given
\* and as many MEASUREs as that program, it keeps the other instructions and
\* the measurements in their order with their classical targets, and the
\* caller's program is left as it was.
C24_FlipBeforeEveryMeasure ==
    result.op = "_get_flipped_protoquil_program"
       => /\ \A j \in 1..Len(qc.flipped) :
                qc.flipped[j].op = "MEASURE"
                   => \E i \in 1..(j - 1) : qc.flipped[i] = RX_pi(qc.flipped[j].qubit)
          /\ C24_WithoutFlips(qc.flipped) = qc.given
          /\ qc.program = qc.given

\* C25: on either simulator, a do_measurement of the qubit that the
\* do_measurement just before it measured returns the same bit, whatever the
\* random source draws, and leaves the state as it is.
C25_MeasurementRepeats ==
    [][(/\ result.op = "do_measurement" /\ result.exc = ""
        /\ result'.op = "do_measurement"
        /\ result'.info.qubit = result.info.qubit)
          => /\ result'.exc = ""
             /\ result'.ret = result.ret
             /\ kind = "wf" => wf' = wf
             /\ kind = "density" => heap'[density'] = heap[density]]_vars

\* qubit 0 of a two-qubit state reads 0 with certainty, the other qubit is in
\* superposition, and the draw 3/4 gave 0
C25_Witness ==
    /\ kind = "wf" /\ n_qubits = 2
    /\ result.op = "do_measurement" /\ result.ret = <<0>>
    /\ result.info = [qubit |-> 0, u |-> Q(3, 4), prob_zero |-> COne]
    /\ wf = <<CHalfSqrt2, CZero, CHalfSqrt2, CZero>>

\* every entry of the state is a finite number
C26_Finite ==
    IF kind = "wf" THEN \A k \in 1..Len(wf) : wf[k][5] # 0
    ELSE \A i \in 1..Rows(heap[density]) :
            \A j \in 1..Cols(heap[density]) : heap[density][i][j][5] # 0

\* C26: do_measurement never divides by zero: with a draw u in [0, 1) it
\* takes outcome 0 only if prob_zero > u >= 0 and outcome 1 only if
\* prob_zero <= u < 1, so the probability of the outcome taken, whose square
\* root is the divisor, is greater than 0, and the collapsed state is finite.
C26_DivisorNotZero ==
    [][(result'.op = "do_measurement" /\ result'.exc = "")
          => \A c \in {result'.info} :
             \A pz \in {ProbZero(c.qubit)} :
                /\ result'.ret = <<0>>
                      => CLess(c.u, pz) /\ ~CLess(c.u, CZero) /\ CLess(CZero, pz)
                /\ result'.ret = <<1>>
                      => ~CLess(c.u, pz) /\ CLess(c.u, COne) /\ CLess(CZero, CSub(COne, pz))
                /\ result'.ret \in {<<0>>, <<1>>}
                /\ C26_Finite']_vars

\* the draw 0 on a qubit that reads 0 with probability 0: outcome 1
C26_Witness ==
    /\ kind = "density"
    /\ result.op = "do_measurement" /\ result.exc = ""
    /\ result.info.u = CZero /\ result.info.prob_zero = CZero
    /\ result.ret = <<1>>

\* the index of the basis state a row of bits stands for, qubit q in column q
RECURSIVE C29_IndexOf(_)
C29_IndexOf(row) ==
    IF row = <<>> THEN 0 ELSE Head(row) + 2 * C29_IndexOf(Tail(row))

\* the probability of the basis state of index k in the current state is not 0
C29_Possible(k) ==
    IF kind = "wf" THEN wf[k + 1] # CZero
    ELSE CLess(CZero, heap[density][k + 1][k + 1])

\* C29: on either simulator, when do_measurement(q) has returned b and
\* sample_bitstrings is the next call, every row it returns has b in column
\* q; and no sample_bitstrings call returns a row whose basis state has
\* probability 0 in the state sampled.
C29_SamplesAgreeWithMeasurement ==
    [][(result'.op = "sample_bitstrings" /\ result'.exc = "")
          => \A k \in 1..Len(result'.ret) :
                /\ C29_Possible(C29_IndexOf(result'.ret[k]))
                /\ (result.op = "do_measurement" /\ result.exc = "")
                      => <<result'.ret[k][result.info.qubit + 1]>> = result.ret]_vars

\* qubit 0 of a two-qubit state reads 1, qubit 1 is in superposition, and the
\* row sampled is <<1, 1>>
C29_Witness ==
    /\ kind = "wf" /\ n_qubits = 2
    /\ result.op = "sample_bitstrings" /\ result.exc = ""
    /\ wf = <<CZero, CHalfSqrt2, CZero, CHalfSqrt2>>
    /\ result.ret = <<<<1, 1>>>>

C27_OuterProduct(w) ==
    V([i \in 1..Len(w) |-> V([j \in 1..Len(w) |-> CMul(w[i], CConj(w[j]))])])

\* C27: on the same do_gate, do_gate_matrix, do_measurement and reset calls
\* with the same draws, the density simulator returns what the wavefunction
\* simulator returns, and its density is the outer product of the
\* wavefunction with itself after every step.
C27_DensityRefinesWavefunction ==
    /\ other.result.op = result.op
    /\ other.result.exc = result.exc
    /\ other.result.ret = result.ret
    /\ heap[density] = C27_OuterProduct(wf)

\* both measured qubit 0 of H|0> with the draw 1/2 and returned 1
C27_Witness ==
    /\ kind = "pair" /\ n_qubits = 1
    /\ result.op = "do_measurement" /\ result.ret = <<1>> /\ result.info.u = Q(1, 2)
    /\ other.result.op = "do_measurement" /\ other.result.ret = <<1>>
    /\ wf = <<CZero, COne>>
    /\ heap[density] = <<<<CZero, CZero>>, <<CZero, COne>>>>

====
